---- MODULE Spec2Model ----
(***************************************************************************)
(* Infinite-Money-Glitch: the cycle controller (src/src/agent/Agent.ts)    *)
(* and its audit ledger (src/src/ledger/Ledger.ts).                        *)
(*                                                                         *)
(* Amounts are bigint in the source (no overflow); the model uses small    *)
(* integers.  An optional / nullable value is <<>> (undefined, null) or    *)
(* <<v>>.  Wall-clock time is the variable now, read by every new Date().  *)
(***************************************************************************)
EXTENDS Integers, Sequences, FiniteSets, TLC

VARIABLES entries, now, pnlRet, auditRet, ledgerRet, state, snap, inv, token, hist

vars == <<entries, now, pnlRet, auditRet, ledgerRet, state, snap, inv, token, hist>>

\* ------------------------------------------------------------------ bounds
MaxTime == 1
MaxEntries == 2
MaxCycles == 5
MaxLedger == 3
MaxRun == 6
MaxLive == 2
MaxOverlap == 2

Times == 0..MaxTime

\* ---------------------------------------------------------------- optionals
Nothing == <<>>

Some(v) == <<v>>

\* JavaScript truthiness of an optional string: undefined and '' are falsy.
Truthy(o) == o # Nothing /\ o[1] # ""

\* o || d
OrElse(o, d) == IF Truthy(o) THEN o[1] ELSE d

\* ------------------------------------------------------------------ Ledger
Directions == {"income", "expense"}

Sources == {"bounty_reward", "seal_encryption", "walrus_storage", "gas_fee", "transfer", "other"}

\* Ledger.walletExplorerUrl of a Ledger constructed without config.
WalletExplorerUrl == ""

\* record(): id and timestamp are generated, the caller's fields spread after.
\* randomUUID() is modelled as a fresh identifier, the entry's ordinal.
MkEntry(es, t, e) ==
    [id |-> Len(es) + 1, timestamp |-> t,
     direction |-> e.direction, source |-> e.source, amount |-> e.amount,
     description |-> e.description, taskHash |-> e.taskHash, bountyId |-> e.bountyId,
     txDigest |-> e.txDigest, blobId |-> e.blobId, sealPolicyId |-> e.sealPolicyId,
     explorerUrl |-> e.explorerUrl]

recordFront(es, t, e) == <<MkEntry(es, t, e)>> \o es

\* this.entries.push(fullEntry)
record(es, t, e) == Append(es, MkEntry(es, t, e))

EarningInputNoUrl(c) ==
    [direction |-> "income", source |-> "bounty_reward", amount |-> c.rewardAmount,
     description |-> "Bounty #" \o ToString(c.bountyId) \o " reward claimed",
     taskHash |-> Some(c.proofHash), bountyId |-> Some(c.bountyId),
     txDigest |-> Some(c.txDigest), blobId |-> Nothing, sealPolicyId |-> Nothing,
     explorerUrl |-> Nothing]

\* recordEarning(claimResult): the input handed to record().
EarningInput(c) ==
    [direction |-> "income", source |-> "bounty_reward", amount |-> c.rewardAmount,
     description |-> "Bounty #" \o ToString(c.bountyId) \o " reward claimed",
     taskHash |-> Some(c.proofHash), bountyId |-> Some(c.bountyId),
     txDigest |-> Some(c.txDigest), blobId |-> Nothing, sealPolicyId |-> Nothing,
     explorerUrl |-> Some(c.explorerUrl)]

recordEarning(es, t, c) == record(es, t, EarningInput(c))

\* recordSpending(protectionResult): upload and encryption are read with ?. so
\* a missing one leaves the proof fields undefined.
SpendingInput(p) ==
    [direction |-> "expense", source |-> "seal_encryption", amount |-> p.gasSpent,
     description |-> "Protected \"" \o p.label \o "\"",
     taskHash |-> Nothing, bountyId |-> Nothing,
     txDigest |-> IF p.upload = Nothing THEN Nothing ELSE Some(p.upload[1].txDigest),
     blobId |-> IF p.upload = Nothing THEN Nothing ELSE Some(p.upload[1].blobId),
     sealPolicyId |-> IF p.encryption = Nothing THEN Nothing ELSE Some(p.encryption[1].sealPolicyId),
     explorerUrl |-> IF p.upload = Nothing THEN Nothing ELSE Some(p.upload[1].explorerUrl)]

recordSpending(es, t, p) == record(es, t, SpendingInput(p))

NoFilter == [from |-> Nothing, to |-> Nothing, direction |-> Nothing, source |-> Nothing]

MatchesExclusive(f, e) ==
    /\ ~(f.from # Nothing /\ e.timestamp <= f.from[1])
    /\ ~(f.to # Nothing /\ e.timestamp >= f.to[1])
    /\ ~(Truthy(f.direction) /\ e.direction # f.direction[1])
    /\ ~(Truthy(f.source) /\ e.source # f.source[1])

\* The predicate of getEntries' filter callback.
Matches(f, e) ==
    /\ ~(f.from # Nothing /\ e.timestamp < f.from[1])
    /\ ~(f.to # Nothing /\ e.timestamp > f.to[1])
    /\ ~(Truthy(f.direction) /\ e.direction # f.direction[1])
    /\ ~(Truthy(f.source) /\ e.source # f.source[1])

RECURSIVE FilterSeq(_, _)
FilterSeq(es, f) ==
    IF es = <<>> THEN <<>>
    ELSE IF Matches(f, Head(es)) THEN <<Head(es)>> \o FilterSeq(Tail(es), f)
         ELSE FilterSeq(Tail(es), f)

\* getEntries(filter?): fo is Nothing (no argument) or Some(filter).
getEntries(es, fo) == IF fo = Nothing THEN es ELSE FilterSeq(es, fo[1])

ReturnedListShared(fo) == IF fo = Nothing THEN "entries" ELSE "copy"

\* The array getEntries returns: [...this.entries] and Array.filter each build
\* a new array (of the same entry objects).
ReturnedList(fo) == "copy"

\* What a caller may do to a list it holds: push an entry, pop, reverse.
ListWrites == {"push", "pop", "reverse"}

PushedEntry ==
    [id |-> 0, timestamp |-> 0, direction |-> "income", source |-> "other", amount |-> 5,
     description |-> "pushed", taskHash |-> Nothing, bountyId |-> Nothing, txDigest |-> Nothing,
     blobId |-> Nothing, sealPolicyId |-> Nothing, explorerUrl |-> Nothing]

\* Array.prototype.push, pop (of an empty array: nothing) and reverse.
WriteList(list, w) ==
    CASE w = "push" -> Append(list, PushedEntry)
      [] w = "pop" -> SubSeq(list, 1, Len(list) - 1)
      [] w = "reverse" -> [k \in 1..Len(list) |-> list[Len(list) + 1 - k]]

MapSet(m, k, a) ==
    [x \in DOMAIN m \cup {k} |-> IF x = k THEN a ELSE m[x]]

\* Map.set(k, (Map.get(k) || 0n) + a)
MapAdd(m, k, a) ==
    [x \in DOMAIN m \cup {k} |-> IF x = k THEN (IF k \in DOMAIN m THEN m[k] ELSE 0) + a ELSE m[x]]

EmptyMap == [x \in {} |-> 0]

\* The accumulation loop of generatePnL over the filtered entries.
RECURSIVE Accumulate(_, _)
Accumulate(es, acc) ==
    IF es = <<>> THEN acc
    ELSE LET e == Head(es) IN
         Accumulate(Tail(es),
            IF e.direction = "income"
            THEN [acc EXCEPT !.totalIncome = @ + e.amount,
                             !.incomeBySource = MapAdd(@, e.source, e.amount)]
            ELSE [acc EXCEPT !.totalExpense = @ + e.amount,
                             !.expenseBySource = MapAdd(@, e.source, e.amount)])

Abs(n) == IF n < 0 THEN -n ELSE n

RECURSIVE Gcd(_, _)
Gcd(a, b) == IF b = 0 THEN a ELSE Gcd(b, a % b)

\* Number(n) / Number(d) for d > 0: the quotient as a fraction in lowest terms
\* (two quotients are the same double exactly when these agree, for the small
\* amounts of the model).
Ratio(n, d) == LET g == Gcd(Abs(n), d) IN <<n \div g, d \div g>>

NetProfitSwapped(ti, te) == te - ti

\* const netProfit = totalIncome - totalExpense
NetProfit(ti, te) == ti - te

generatePnL(es, from, to, t) ==
    LET filtered == getEntries(es, Some([from |-> from, to |-> to,
                                         direction |-> Nothing, source |-> Nothing]))
        acc == Accumulate(filtered, [totalIncome |-> 0, totalExpense |-> 0,
                                     incomeBySource |-> EmptyMap, expenseBySource |-> EmptyMap])
        netProfit == NetProfit(acc.totalIncome, acc.totalExpense)
    IN [period |-> [from |-> IF from # Nothing THEN from[1]
                             ELSE IF filtered # <<>> THEN filtered[1].timestamp ELSE t,
                    to |-> IF to # Nothing THEN to[1]
                           ELSE IF filtered # <<>> THEN filtered[Len(filtered)].timestamp ELSE t],
        totalIncome |-> acc.totalIncome,
        totalExpense |-> acc.totalExpense,
        netProfit |-> netProfit,
        profitMargin |-> IF acc.totalIncome > 0 THEN Ratio(netProfit, acc.totalIncome) ELSE <<0, 1>>,
        transactionCount |-> Len(filtered),
        incomeBySource |-> acc.incomeBySource,
        expenseBySource |-> acc.expenseBySource,
        walletExplorerUrl |-> WalletExplorerUrl]

\* printSummary(): the figures it logs, those of generatePnL() over the whole
\* ledger (the layout of the lines is not modelled).
printSummary(es, t) ==
    LET pnl == generatePnL(es, Nothing, Nothing, t)
    IN [transactions |-> pnl.transactionCount, income |-> pnl.totalIncome,
        expense |-> pnl.totalExpense, net |-> pnl.netProfit, margin |-> pnl.profitMargin]

\* ------------------------------------------------- JSON.stringify(packageData)
Quote(s) == "\"" \o s \o "\""

RECURSIVE Join(_)
Join(parts) ==
    IF parts = <<>> THEN ""
    ELSE IF Len(parts) = 1 THEN parts[1]
    ELSE parts[1] \o "," \o Join(Tail(parts))

JObject(fields) == "{" \o Join(fields) \o "}"

JArray(items) == "[" \o Join(items) \o "]"

JField(k, v) == <<Quote(k) \o ":" \o v>>

\* A property whose value is undefined is left out of the text.
JOptString(k, o) == IF o = Nothing THEN <<>> ELSE JField(k, Quote(o[1]))

JOptNumber(k, o) == IF o = Nothing THEN <<>> ELSE JField(k, ToString(o[1]))

\* The replacer: a bigint is written as its decimal string.
JBigint(n) == Quote(ToString(n))

\* Date.prototype.toJSON: the ISO text of the instant.
JDate(t) == Quote("T" \o ToString(t))

\* A double: the text of the quotient.
JRatio(r) == IF r[2] = 1 THEN ToString(r[1]) ELSE ToString(r[1]) \o "/" \o ToString(r[2])

\* A Map has no enumerable own properties: JSON.stringify writes {}.
JMap(m) == "{}"

JEntry(e) ==
    JObject(JField("id", Quote(ToString(e.id))) \o JField("timestamp", JDate(e.timestamp))
            \o JField("direction", Quote(e.direction)) \o JField("source", Quote(e.source))
            \o JField("amount", JBigint(e.amount)) \o JField("description", Quote(e.description))
            \o JOptString("taskHash", e.taskHash) \o JOptNumber("bountyId", e.bountyId)
            \o JOptString("txDigest", e.txDigest) \o JOptString("blobId", e.blobId)
            \o JOptString("sealPolicyId", e.sealPolicyId) \o JOptString("explorerUrl", e.explorerUrl))

JPnL(p) ==
    JObject(JField("period", JObject(JField("from", JDate(p.period.from))
                                     \o JField("to", JDate(p.period.to))))
            \o JField("totalIncome", JBigint(p.totalIncome))
            \o JField("totalExpense", JBigint(p.totalExpense))
            \o JField("netProfit", JBigint(p.netProfit))
            \o JField("profitMargin", JRatio(p.profitMargin))
            \o JField("transactionCount", ToString(p.transactionCount))
            \o JField("incomeBySource", JMap(p.incomeBySource))
            \o JField("expenseBySource", JMap(p.expenseBySource))
            \o JField("walletExplorerUrl", Quote(p.walletExplorerUrl)))

JTx(x) ==
    JObject(JField("digest", Quote(x.digest)) \o JField("explorerUrl", Quote(x.explorerUrl))
            \o JField("direction", Quote(x.direction)) \o JField("amount", JBigint(x.amount))
            \o JField("source", Quote(x.source)))

JStorage(x) ==
    JObject(JField("blobId", Quote(x.blobId)) \o JField("sealPolicyId", Quote(x.sealPolicyId))
            \o JField("label", Quote(x.label)) \o JField("size", ToString(x.size)))

JProof(x) ==
    JObject(JField("taskHash", Quote(x.taskHash)) \o JField("bountyId", ToString(x.bountyId))
            \o JField("txDigest", Quote(x.txDigest)))

Stringify(d) ==
    JObject(JField("generatedAt", JDate(d.generatedAt))
            \o JField("agentAddress", Quote(d.agentAddress))
            \o JField("walletExplorerUrl", Quote(d.walletExplorerUrl))
            \o JField("entries", JArray([i \in 1..Len(d.entries) |-> JEntry(d.entries[i])]))
            \o JField("profitLoss", JPnL(d.profitLoss))
            \o JField("onChainTransactions",
                      JArray([i \in 1..Len(d.onChainTransactions) |-> JTx(d.onChainTransactions[i])]))
            \o JField("encryptedStorage",
                      JArray([i \in 1..Len(d.encryptedStorage) |-> JStorage(d.encryptedStorage[i])]))
            \o JField("workProofs",
                      JArray([i \in 1..Len(d.workProofs) |-> JProof(d.workProofs[i])])))

\* exportToJson(): the text of the entry array (the indentation of the
\* pretty-printed text is left out).
exportToJson(es) == JArray([i \in 1..Len(es) |-> JEntry(es[i])])

\* createHash('sha256').update(text).digest('hex'): a collision-free digest.
Sha256(text) == <<"sha256", text>>

\* ------------------------------------------------------ generateAuditPackage
HasTxDefined(e) == e.txDigest # Nothing

HasTx(e) == Truthy(e.txDigest)

HasBlob(e) == Truthy(e.blobId)

HasWorkProof(e) == Truthy(e.taskHash) /\ e.bountyId # Nothing

\* The callbacks of the three filter() calls, by the list they build.
Keeps(list, e) ==
    CASE list = "onChainTransactions" -> HasTx(e)
      [] list = "encryptedStorage" -> HasBlob(e)
      [] list = "workProofs" -> HasWorkProof(e)

\* Array.prototype.filter: the kept entries, in order.
RECURSIVE SelectEntries(_, _)
SelectEntries(es, list) ==
    IF es = <<>> THEN <<>>
    ELSE IF Keeps(list, Head(es)) THEN <<Head(es)>> \o SelectEntries(Tail(es), list)
         ELSE SelectEntries(Tail(es), list)

TxSummary(e) ==
    [digest |-> OrElse(e.txDigest, ""), explorerUrl |-> OrElse(e.explorerUrl, ""),
     direction |-> e.direction, amount |-> e.amount, source |-> e.source]

StorageSummary(e) ==
    [blobId |-> OrElse(e.blobId, ""), sealPolicyId |-> OrElse(e.sealPolicyId, ""),
     label |-> e.description, size |-> 0]

ProofSummary(e) ==
    [taskHash |-> OrElse(e.taskHash, ""), bountyId |-> e.bountyId[1],
     txDigest |-> OrElse(e.txDigest, "")]

PackageData(es, agentAddress, t) ==
    LET all == getEntries(es, Nothing)
        tx == SelectEntries(all, "onChainTransactions")
        st == SelectEntries(all, "encryptedStorage")
        wp == SelectEntries(all, "workProofs")
    IN [generatedAt |-> t,
        agentAddress |-> agentAddress,
        walletExplorerUrl |-> WalletExplorerUrl,
        entries |-> all,
        profitLoss |-> generatePnL(es, Nothing, Nothing, t),
        onChainTransactions |-> [i \in 1..Len(tx) |-> TxSummary(tx[i])],
        encryptedStorage |-> [i \in 1..Len(st) |-> StorageSummary(st[i])],
        workProofs |-> [i \in 1..Len(wp) |-> ProofSummary(wp[i])]]

generateAuditPackage(es, agentAddress, t) ==
    LET d == PackageData(es, agentAddress, t)
    IN [generatedAt |-> d.generatedAt, agentAddress |-> d.agentAddress,
        walletExplorerUrl |-> d.walletExplorerUrl, entries |-> d.entries,
        profitLoss |-> d.profitLoss, onChainTransactions |-> d.onChainTransactions,
        encryptedStorage |-> d.encryptedStorage, workProofs |-> d.workProofs,
        checksum |-> Sha256(Stringify(d))]

\* ------------------------------------------------------------------ inputs
\* What claimBountyReward returns: a claim that succeeded, one whose
\* transaction was executed and reported failure, one whose submission threw.
OkClaim ==
    [bountyId |-> 0, rewardAmount |-> 10, txDigest |-> "tx1", explorerUrl |-> "scan/tx1",
     proofHash |-> "h1", success |-> TRUE]

RevertedClaim ==
    [bountyId |-> 1, rewardAmount |-> 10, txDigest |-> "tx2", explorerUrl |-> "scan/tx2",
     proofHash |-> "h2", success |-> FALSE]

FailedClaim ==
    [bountyId |-> 1, rewardAmount |-> 10, txDigest |-> "", explorerUrl |-> "",
     proofHash |-> "h2", success |-> FALSE]

ClaimResults == {OkClaim, RevertedClaim, FailedClaim}

\* What protectUserData returns: a protection that succeeded (its upload here
\* shares the claim's transaction), and the shape built when a step threw.
OkProtection ==
    [label |-> "git-config", encryption |-> Some([sealPolicyId |-> "policy1"]),
     upload |-> Some([blobId |-> "blob1", txDigest |-> "tx1", explorerUrl |-> "scan/tx1"]),
     gasSpent |-> 1, success |-> TRUE]

FailedProtection ==
    [label |-> "git-config", encryption |-> Some([sealPolicyId |-> ""]),
     upload |-> Some([blobId |-> "", txDigest |-> "", explorerUrl |-> ""]),
     gasSpent |-> 1, success |-> FALSE]

ProtectionResults == {OkProtection, FailedProtection}

\* Entries handed to record() directly.
RawEntries ==
    {[direction |-> "income", source |-> "transfer", amount |-> 10, description |-> "deposit",
      taskHash |-> Nothing, bountyId |-> Nothing, txDigest |-> Some("tx3"), blobId |-> Nothing,
      sealPolicyId |-> Nothing, explorerUrl |-> Nothing],
     [direction |-> "expense", source |-> "gas_fee", amount |-> 12, description |-> "gas",
      taskHash |-> Some("h3"), bountyId |-> Nothing, txDigest |-> Some(""), blobId |-> Nothing,
      sealPolicyId |-> Nothing, explorerUrl |-> Nothing],
     [direction |-> "income", source |-> "other", amount |-> 0 - 5, description |-> "reversal",
      taskHash |-> Nothing, bountyId |-> Nothing, txDigest |-> Nothing, blobId |-> Nothing,
      sealPolicyId |-> Nothing, explorerUrl |-> Nothing]}

\* The claims and protections handed to recordEarning and recordSpending directly.
LedgerClaims == {OkClaim, FailedClaim}

LedgerProtections == {OkProtection}

Addresses == {"0xA", "0xB"}

\* The arguments of getEntries: none, a filter without criteria, and filters
\* with a lower bound, an upper bound, a direction, and all four criteria.
Filters ==
    {Nothing, Some(NoFilter),
     Some([NoFilter EXCEPT !.from = Some(MaxTime)]),
     Some([NoFilter EXCEPT !.to = Some(0)]),
     Some([NoFilter EXCEPT !.direction = Some("income")]),
     Some([from |-> Some(0), to |-> Some(MaxTime), direction |-> Some("expense"),
           source |-> Some("gas_fee")])}

\* The <<from, to>> arguments of generatePnL.
Windows == {<<Nothing, Nothing>>, <<Some(MaxTime), Some(MaxTime)>>}

\* ------------------------------------------------------------- Agent state
\* runCycle invocations: 1 alone when the caller serializes its calls.
AllInvs == {1, 2}

SerialInvs == {1}

StarvationThreshold == 10000000

FailureThreshold == 3

CycleIntervalMinutes == 5

\* wallet.getAddress() of the initialized wallet.
AgentAddress == "0xA"

InitialState ==
    [mode |-> "NORMAL", cycleCount |-> 0, lastCycleAt |-> Nothing, consecutiveFailures |-> 0,
     totalEarned |-> 0, totalSpent |-> 0]

\* The placeholder phases built before the try block.
InitialPhases(mode, t) ==
    [healthCheck |-> [balance |-> 0, sufficientBalance |-> FALSE, bountyBoardReachable |-> FALSE,
                      openclawGatewayReachable |-> FALSE, recommendedMode |-> mode],
     earn |-> Nothing, spend |-> Nothing, audit |-> Nothing, verify |-> Nothing,
     report |-> [pnlSummary |-> <<>>, survivalStatus |-> "", nextCycleAt |-> t]]

\* One invocation: its position (the await it is suspended at), its locals,
\* what it returned, and for the properties the collaborator calls it made,
\* the outcome of each verification attempt, and the ledger length and totals
\* it started from.
IdleInv ==
    [pc |-> "idle", cycleNumber |-> 0, start |-> 0, phases |-> InitialPhases("NORMAL", 0),
     balance |-> 0, sufficientBalance |-> FALSE, bountyBoardReachable |-> FALSE,
     digests |-> <<>>, details |-> <<>>, calls |-> <<>>, attempts |-> <<>>,
     pre |-> [len |-> 0, totalEarned |-> 0, totalSpent |-> 0],
     ret |-> Nothing, threw |-> FALSE]

InitAgent ==
    /\ state = InitialState
    /\ inv = [i \in AllInvs |-> IdleInv]
    /\ hist = [numbers |-> <<>>, failRun |-> 0]

\* The assignment a caller makes to a field of a snapshot it holds.
SnapshotWrites == {<<"consecutiveFailures", 3>>}

\* What the collaborators may answer.
Balances == {StarvationThreshold, StarvationThreshold + 1}

\* A thrown value: an Error with a message, or something that is no Error.
RpcError == [isError |-> TRUE, message |-> "rpc failed", value |-> 0]

Thrown == {RpcError, [isError |-> FALSE, message |-> "", value |-> 42]}

\* earn() answers with at most one claim; spend() with one protection per
\* item found, here at most one.
EarnResults == {[claims |-> <<>>]} \cup {[claims |-> <<c>>] : c \in ClaimResults}

SpendResults == {[protections |-> <<>>]} \cup {[protections |-> <<p>>] : p \in ProtectionResults}

\* fetch(`${openclawBaseUrl}/health`)
GatewayOutcomes == {"ok", "notOk", "throws"}

\* One digest's navigate and snapshot calls: the request throws, the status is
\* not ok (not authorised included), the payload carries an error, or the
\* snapshot text holds 'Success', the digest, or neither.
VerifyOutcomes == {"fetchThrows", "statusNotOk", "payloadError", "pageNeither", "pageSuccess", "pageDigest"}

\* error instanceof Error ? error.message : String(error)
ErrorText(e) == IF e.isError THEN e.message ELSE ToString(e.value)

UnreachableError == [isError |-> TRUE, message |-> "BountyBoard contract unreachable", value |-> 0]

\* ------------------------------------------------------------- healthCheck
RecommendedModeLate(sufficientBalance, consecutiveFailures) ==
    IF consecutiveFailures > FailureThreshold THEN "ERROR"
    ELSE IF ~sufficientBalance THEN "STARVATION" ELSE "NORMAL"

RecommendedMode(sufficientBalance, consecutiveFailures) ==
    IF consecutiveFailures >= FailureThreshold THEN "ERROR"
    ELSE IF ~sufficientBalance THEN "STARVATION" ELSE "NORMAL"

SufficientBalanceInclusive(balance) == balance >= StarvationThreshold

\* const sufficientBalance = balance.sui > this.starvationThreshold
SufficientBalance(balance) == balance > StarvationThreshold

\* --------------------------------------------------------------- runCycle
PostIncrement(cycleCount) == cycleCount

\* const cycleNumber = ++this.state.cycleCount
CycleNumberOf(cycleCount) == cycleCount + 1

CaughtAfterHealth(site) == site # "getBalance"

\* The call sites inside runCycle's try block: every collaborator call.
Caught(site) == site \in {"getBalance", "unreachable", "earn", "spend", "verify"}

AbortsOnUnreachableOrError(healthCheck) ==
    ~healthCheck.bountyBoardReachable \/ healthCheck.recommendedMode = "ERROR"

AbortsOnAnyUnreachable(healthCheck) ==
    ~healthCheck.bountyBoardReachable \/ ~healthCheck.openclawGatewayReachable

NeverAborts(healthCheck) == FALSE

\* if (!phases.healthCheck.bountyBoardReachable) throw
AbortsOnUnreachable(healthCheck) == ~healthCheck.bountyBoardReachable

SpendAllowedUnlessError(mode) == mode # "ERROR"

SpendAlways(mode) == TRUE

\* if (this.state.mode !== 'STARVATION')
SpendAllowed(mode) == mode # "STARVATION"

ShouldRecordAlways(x) == TRUE

\* if (claim.success), if (protection.success)
ShouldRecord(x) == x.success

RecordClaimsDeferred(claims, es, st, t) == [entries |-> es, state |-> st]

RECURSIVE RecordClaimsOverwriting(_, _, _, _)
RecordClaimsOverwriting(claims, es, st, t) ==
    IF claims = <<>> THEN [entries |-> es, state |-> st]
    ELSE IF ShouldRecord(Head(claims))
         THEN RecordClaimsOverwriting(Tail(claims), recordEarning(es, t, Head(claims)),
                                      [st EXCEPT !.totalEarned = Head(claims).rewardAmount], t)
         ELSE RecordClaimsOverwriting(Tail(claims), es, st, t)

\* The loop over phases.earn.claims.
RECURSIVE RecordClaims(_, _, _, _)
RecordClaims(claims, es, st, t) ==
    IF claims = <<>> THEN [entries |-> es, state |-> st]
    ELSE IF ShouldRecord(Head(claims))
         THEN RecordClaims(Tail(claims), recordEarning(es, t, Head(claims)),
                           [st EXCEPT !.totalEarned = @ + Head(claims).rewardAmount], t)
         ELSE RecordClaims(Tail(claims), es, st, t)

RECURSIVE RecordProtectionsUncounted(_, _, _, _)
RecordProtectionsUncounted(ps, es, st, t) ==
    IF ps = <<>> THEN [entries |-> es, state |-> st]
    ELSE IF ShouldRecord(Head(ps))
         THEN RecordProtectionsUncounted(Tail(ps), recordSpending(es, t, Head(ps)), st, t)
         ELSE RecordProtectionsUncounted(Tail(ps), es, st, t)

\* The loop over phases.spend.protections.
RECURSIVE RecordProtections(_, _, _, _)
RecordProtections(ps, es, st, t) ==
    IF ps = <<>> THEN [entries |-> es, state |-> st]
    ELSE IF ShouldRecord(Head(ps))
         THEN RecordProtections(Tail(ps), recordSpending(es, t, Head(ps)),
                                [st EXCEPT !.totalSpent = @ + Head(ps).gasSpent], t)
         ELSE RecordProtections(Tail(ps), es, st, t)

RECURSIVE ClaimDigestsOfSuccessful(_)
ClaimDigestsOfSuccessful(claims) ==
    IF claims = <<>> THEN <<>>
    ELSE (IF Head(claims).success /\ Head(claims).txDigest # ""
          THEN <<Head(claims).txDigest>> ELSE <<>>)
         \o ClaimDigestsOfSuccessful(Tail(claims))

\* collectTxDigests: if (claim.txDigest) digests.push(claim.txDigest)

RECURSIVE ClaimDigests(_)
ClaimDigests(claims) ==
    IF claims = <<>> THEN <<>>
    ELSE (IF Head(claims).txDigest # "" THEN <<Head(claims).txDigest>> ELSE <<>>)
         \o ClaimDigests(Tail(claims))

RECURSIVE ProtectionDigests(_)
ProtectionDigests(ps) ==
    IF ps = <<>> THEN <<>>
    ELSE (IF Head(ps).upload # Nothing /\ Head(ps).upload[1].txDigest # ""
          THEN <<Head(ps).upload[1].txDigest>> ELSE <<>>)
         \o ProtectionDigests(Tail(ps))

KeepDuplicates(ds) == ds

\* [...new Set(digests)]: the first occurrence of each, in order.
RECURSIVE Dedupe(_)
Dedupe(ds) ==
    IF ds = <<>> THEN <<>>
    ELSE LET front == Dedupe(SubSeq(ds, 1, Len(ds) - 1))
             last == ds[Len(ds)]
         IN IF \E k \in 1..Len(front) : front[k] = last THEN front ELSE Append(front, last)

collectTxDigests(phases) ==
    Dedupe((IF phases.earn # Nothing THEN ClaimDigests(phases.earn[1].claims) ELSE <<>>)
           \o (IF phases.spend # Nothing THEN ProtectionDigests(phases.spend[1].protections) ELSE <<>>))

SurvivalStatusOptimistic(netProfit) ==
    IF netProfit >= 0 THEN "PROFITABLE" ELSE "LOSS"

\* generateReport(): the survival status and the figures of the summary text
\* (the text formatting itself is not modelled).
SurvivalStatus(netProfit) ==
    IF netProfit > 0 THEN "PROFITABLE"
    ELSE IF netProfit = 0 THEN "BREAK-EVEN" ELSE "LOSS"

generateReport(es, t) ==
    LET pnl == generatePnL(es, Nothing, Nothing, t)
    IN [pnlSummary |-> <<pnl.totalIncome, pnl.totalExpense, pnl.netProfit, pnl.profitMargin>>,
        survivalStatus |-> SurvivalStatus(pnl.netProfit),
        nextCycleAt |-> t + CycleIntervalMinutes * 60 * 1000]

\* verifyOnChain: what one digest's attempt yields.  The try/catch around the
\* two browser calls turns every throw into verified = false.
PageConfirms(outcome) == outcome \in {"pageSuccess", "pageDigest"}

RpcThrows(outcome) == outcome \in {"fetchThrows", "statusNotOk", "payloadError"}

VerifyAttemptUncaught(outcome) == [verified |-> PageConfirms(outcome), thrown |-> RpcThrows(outcome)]

VerifyAttempt(outcome) == [verified |-> PageConfirms(outcome), thrown |-> FALSE]

ExplorerUrl(digest) == "https://suiscan.xyz/testnet/tx/" \o digest

CountDetails(details) == Len(details)

RECURSIVE CountVerified(_)
CountVerified(details) ==
    IF details = <<>> THEN 0
    ELSE (IF Head(details).verified THEN 1 ELSE 0) + CountVerified(Tail(details))

VerifyResult(details) ==
    [transactionsVerified |-> CountVerified(details),
     allVerified |-> IF Len(details) > 0 THEN CountVerified(details) = Len(details) ELSE TRUE,
     details |-> details]

CaughtStateStamped(st, t) ==
    [st EXCEPT !.consecutiveFailures = @ + 1, !.lastCycleAt = Some(t)]

\* this.state.consecutiveFailures += 1
CaughtState(st, t) == [st EXCEPT !.consecutiveFailures = @ + 1]

ReturnedStateUnstamped(st, t) == [st EXCEPT !.consecutiveFailures = 0]

\* this.state.consecutiveFailures = 0; this.state.lastCycleAt = new Date()
ReturnedState(st, t) == [st EXCEPT !.consecutiveFailures = 0, !.lastCycleAt = Some(t)]

FailRetrying(st, es, c, site, err, t) ==
    IF site = "getBalance"
    THEN [state |-> st, entries |-> es, inv |-> [c EXCEPT !.calls = Append(@, <<"getBalance", "">>)]]
    ELSE [state |-> [st EXCEPT !.consecutiveFailures = @ + 1],
          entries |-> es,
          inv |-> [c EXCEPT !.pc = "idle",
                            !.ret = Some([cycleNumber |-> c.cycleNumber, mode |-> st.mode,
                                          phases |-> c.phases, duration |-> t - c.start,
                                          success |-> FALSE, error |-> Some(ErrorText(err))])]]

FailRollingBack(st, es, c, site, err, t) ==
    [state |-> [st EXCEPT !.consecutiveFailures = @ + 1,
                          !.totalEarned = c.pre.totalEarned, !.totalSpent = c.pre.totalSpent],
     entries |-> SubSeq(es, 1, c.pre.len),
     inv |-> [c EXCEPT !.pc = "idle",
                       !.ret = Some([cycleNumber |-> c.cycleNumber, mode |-> st.mode,
                                     phases |-> c.phases, duration |-> t - c.start,
                                     success |-> FALSE, error |-> Some(ErrorText(err))])]]

\* The catch block (or, for a call outside the try block, the exception
\* leaving runCycle): the controller state, ledger and invocation after it.
Fail(st, es, c, site, err, t) ==
    IF Caught(site)
    THEN [state |-> CaughtState(st, t),
          entries |-> es,
          inv |-> [c EXCEPT !.pc = "idle",
                            !.ret = Some([cycleNumber |-> c.cycleNumber, mode |-> st.mode,
                                          phases |-> c.phases, duration |-> t - c.start,
                                          success |-> FALSE, error |-> Some(ErrorText(err))])]]
    ELSE [state |-> st, entries |-> es, inv |-> [c EXCEPT !.pc = "idle", !.threw = TRUE]]

\* From printSummary to the return of the successful result.
Finish(st, es, c, verify, t) ==
    LET phases == [c.phases EXCEPT !.verify = verify, !.report = generateReport(es, t)]
        st2 == ReturnedState(st, t)
    IN [state |-> st2,
        entries |-> es,
        inv |-> [c EXCEPT !.pc = "idle", !.phases = phases,
                          !.ret = Some([cycleNumber |-> c.cycleNumber, mode |-> st2.mode,
                                        phases |-> phases, duration |-> t - c.start,
                                        success |-> TRUE, error |-> Nothing])]]

AuditUnlessStarving(st, es, t) ==
    IF st.mode = "STARVATION" THEN Nothing ELSE Some(generateAuditPackage(es, AgentAddress, t))

\* phases.audit = this.ledger.generateAuditPackage(this.wallet.getAddress())
AuditOf(st, es, t) == Some(generateAuditPackage(es, AgentAddress, t))

\* From generateAuditPackage to the call of verifyOnChain (or, with no digest,
\* to the return).
AfterSpend(st, es, c, t) ==
    LET phases == [c.phases EXCEPT !.audit = AuditOf(st, es, t)]
        digests == collectTxDigests(phases)
        c2 == [c EXCEPT !.phases = phases, !.digests = digests, !.details = <<>>]
    IN IF Len(digests) > 0
       THEN [state |-> st, entries |-> es, inv |-> [c2 EXCEPT !.pc = "verify"]]
       ELSE Finish(st, es, c2, Nothing, t)

getStateShared(st) == [object |-> "state", fields |-> st, assigned |-> FALSE]

\* getState(): return { ...this.state }, a new object with the fields of the
\* state (object tells the returned object from this.state itself; assigned
\* records that the caller has written to it).
getState(st) == [object |-> "copy", fields |-> st, assigned |-> FALSE]

\* The history kept for the properties: the cycle numbers returned so far and
\* the number of failed cycles since the last successful one.
Logged(h, c) ==
    IF c.pc = "idle" /\ c.ret # Nothing
    THEN [numbers |-> Append(h.numbers, c.ret[1].cycleNumber),
          failRun |-> IF c.ret[1].success THEN 0 ELSE h.failRun + 1]
    ELSE h

\* The step of invocation i whose outcome is out (bound once, as a value).
Apply(i, out) ==
    \E o \in {out} :
        /\ state' = o.state
        /\ entries' = o.entries
        /\ inv' = [inv EXCEPT ![i] = o.inv]
        /\ hist' = Logged(hist, o.inv)
        /\ UNCHANGED <<now, pnlRet, auditRet, ledgerRet, snap, token>>

\* The wall clock advances.
Tick ==
    /\ now < MaxTime
    /\ now' = now + 1
    /\ UNCHANGED <<entries, pnlRet, auditRet, ledgerRet, state, snap, inv, token, hist>>

Called(c, call) == [c EXCEPT !.calls = Append(@, call)]

\* runCycle() is called, for at most the n-th time: up to the first await.
StartCycleUpTo(i, n) ==
    /\ \A j \in AllInvs : inv[j].pc = "idle"
    /\ snap = Nothing
    /\ state.cycleCount < n
    /\ Len(entries) + 2 <= MaxLedger
    /\ Apply(i, [state |-> [state EXCEPT !.cycleCount = @ + 1],
                 entries |-> entries,
                 inv |-> [IdleInv EXCEPT !.pc = "getBalance",
                                         !.cycleNumber = CycleNumberOf(state.cycleCount),
                                         !.start = now,
                                         !.phases = InitialPhases(state.mode, now),
                                         !.calls = <<<<"getBalance", "">>>>,
                                         !.pre = [len |-> Len(entries),
                                                  totalEarned |-> state.totalEarned,
                                                  totalSpent |-> state.totalSpent]]])

StartCycle(i) == StartCycleUpTo(i, MaxCycles)

BalanceReturns(i, b) ==
    /\ inv[i].pc = "getBalance"
    /\ Apply(i, [state |-> state, entries |-> entries,
                 inv |-> [Called(inv[i], <<"getAvailableBounties", "">>) EXCEPT
                              !.pc = "probe", !.balance = b,
                              !.sufficientBalance = SufficientBalance(b)]])

BalanceThrows(i, err) ==
    /\ inv[i].pc = "getBalance"
    /\ Apply(i, Fail(state, entries, inv[i], "getBalance", err, now))

BountiesProbed(i, reachable) ==
    /\ inv[i].pc = "probe"
    /\ Apply(i, [state |-> state, entries |-> entries,
                 inv |-> [Called(inv[i], <<"fetchHealth", "">>) EXCEPT
                              !.pc = "gateway", !.bountyBoardReachable = reachable]])

\* The gateway probe answers; healthCheck returns, the mode is adopted and the
\* reachability precondition is tested; then earn() is called.
GatewayProbed(i, outcome) ==
    /\ inv[i].pc = "gateway"
    /\ LET c == inv[i]
           hc == [balance |-> c.balance, sufficientBalance |-> c.sufficientBalance,
                  bountyBoardReachable |-> c.bountyBoardReachable,
                  openclawGatewayReachable |-> (outcome = "ok"),
                  recommendedMode |-> RecommendedMode(c.sufficientBalance, state.consecutiveFailures)]
           st == [state EXCEPT !.mode = hc.recommendedMode]
           c2 == [c EXCEPT !.phases.healthCheck = hc]
       IN IF AbortsOnUnreachable(hc)
          THEN Apply(i, Fail(st, entries, c2, "unreachable", UnreachableError, now))
          ELSE Apply(i, [state |-> st, entries |-> entries,
                         inv |-> [Called(c2, <<"earn", "">>) EXCEPT !.pc = "earn"]])

\* earn() answers: the claims are recorded; then spend() is called unless the
\* mode is STARVATION, in which case the cycle goes on to the audit.
EarnReturns(i, r) ==
    /\ inv[i].pc = "earn"
    /\ LET c == [inv[i] EXCEPT !.phases.earn = Some(r)]
           rec == RecordClaims(r.claims, entries, state, now)
       IN IF SpendAllowed(rec.state.mode)
          THEN Apply(i, [state |-> rec.state, entries |-> rec.entries,
                         inv |-> [Called(c, <<"spend", "">>) EXCEPT !.pc = "spend"]])
          ELSE Apply(i, AfterSpend(rec.state, rec.entries, c, now))

EarnThrows(i, err) ==
    /\ inv[i].pc = "earn"
    /\ Apply(i, Fail(state, entries, inv[i], "earn", err, now))

SpendReturns(i, r) ==
    /\ inv[i].pc = "spend"
    /\ LET c == [inv[i] EXCEPT !.phases.spend = Some(r)]
           rec == RecordProtections(r.protections, entries, state, now)
       IN Apply(i, AfterSpend(rec.state, rec.entries, c, now))

SpendThrows(i, err) ==
    /\ inv[i].pc = "spend"
    /\ Apply(i, Fail(state, entries, inv[i], "spend", err, now))

\* verifyOnChain with an access token: the next digest is inspected.
VerifyDigest(i, outcome) ==
    /\ inv[i].pc = "verify"
    /\ token
    /\ LET c == inv[i]
           d == c.digests[Len(c.details) + 1]
           a == VerifyAttempt(outcome)
           c1 == [Called(c, <<"verify", d>>) EXCEPT !.attempts = Append(@, <<d, outcome>>)]
           c2 == [c1 EXCEPT !.details = Append(@, [txDigest |-> d, verified |-> a.verified,
                                                   explorerUrl |-> ExplorerUrl(d)])]
       IN IF a.thrown
          THEN Apply(i, Fail(state, entries, c1, "verify",
                             [isError |-> TRUE, message |-> outcome, value |-> 0], now))
          ELSE IF Len(c2.details) = Len(c2.digests)
               THEN Apply(i, Finish(state, entries, c2, Some(VerifyResult(c2.details)), now))
               ELSE Apply(i, [state |-> state, entries |-> entries, inv |-> c2])

\* verifyOnChain without an access token: no digest is inspected.
VerifyWithoutToken(i) ==
    /\ inv[i].pc = "verify"
    /\ ~token
    /\ LET c == inv[i]
           details == [k \in 1..Len(c.digests) |->
                          [txDigest |-> c.digests[k], verified |-> FALSE,
                           explorerUrl |-> ExplorerUrl(c.digests[k])]]
       IN Apply(i, Finish(state, entries, [c EXCEPT !.details = details],
                          Some(VerifyResult(details)), now))

\* The caller reads the state between two cycles.
GetState ==
    /\ \A j \in AllInvs : inv[j].pc = "idle"
    /\ snap' = Some(getState(state))
    /\ UNCHANGED <<entries, now, pnlRet, auditRet, ledgerRet, state, inv, token, hist>>

\* The caller assigns to a field of the object getState() returned: the
\* controller's state changes with it only if that object is this.state.
AssignSnapshot(field, value) ==
    /\ snap # Nothing
    /\ ~snap[1].assigned
    /\ snap' = Some([snap[1] EXCEPT !.fields[field] = value, !.assigned = TRUE])
    /\ state' = IF snap[1].object = "state" THEN [state EXCEPT ![field] = value] ELSE state
    /\ UNCHANGED <<entries, now, pnlRet, auditRet, ledgerRet, inv, token, hist>>

\* The caller lets go of the snapshot.
DiscardSnapshot ==
    /\ snap # Nothing
    /\ snap' = Nothing
    /\ UNCHANGED <<entries, now, pnlRet, auditRet, ledgerRet, state, inv, token, hist>>

Init ==
    /\ entries = <<>>
    /\ now = 0
    /\ pnlRet = Nothing
    /\ auditRet = Nothing
    /\ ledgerRet = Nothing
    /\ snap = Nothing
    /\ token \in BOOLEAN
    /\ InitAgent

Step(i) ==
    \/ StartCycle(i)
    \/ \E b \in Balances : BalanceReturns(i, b)
    \/ \E err \in Thrown : BalanceThrows(i, err)
    \/ \E reachable \in BOOLEAN : BountiesProbed(i, reachable)
    \/ \E outcome \in GatewayOutcomes : GatewayProbed(i, outcome)
    \/ \E r \in EarnResults : EarnReturns(i, r)
    \/ EarnThrows(i, RpcError)
    \/ \E r \in SpendResults : SpendReturns(i, r)
    \/ SpendThrows(i, RpcError)
    \/ \E outcome \in VerifyOutcomes : VerifyDigest(i, outcome)
    \/ VerifyWithoutToken(i)

Next ==
    \/ Tick
    \/ \E i \in SerialInvs : Step(i)
    \/ GetState
    \/ \E w \in SnapshotWrites : AssignSnapshot(w[1], w[2])
    \/ DiscardSnapshot

Spec == Init /\ [][Next]_vars

\* A longer run of serialized cycles: up to MaxRun of them, with a clock that
\* stands still, no access token for the verifier, a gateway that answers and
\* no caller reading the state in between.
InitRun ==
    /\ entries = <<>>
    /\ now = 0
    /\ pnlRet = Nothing
    /\ auditRet = Nothing
    /\ ledgerRet = Nothing
    /\ snap = Nothing
    /\ token = FALSE
    /\ InitAgent

StepRun(i) ==
    \/ StartCycleUpTo(i, MaxRun)
    \/ \E b \in Balances : BalanceReturns(i, b)
    \/ BalanceThrows(i, RpcError)
    \/ \E reachable \in BOOLEAN : BountiesProbed(i, reachable)
    \/ GatewayProbed(i, "ok")
    \/ \E r \in EarnResults : EarnReturns(i, r)
    \/ EarnThrows(i, RpcError)
    \/ \E r \in SpendResults : SpendReturns(i, r)
    \/ SpendThrows(i, RpcError)
    \/ VerifyWithoutToken(i)

NextRun == \E i \in SerialInvs : StepRun(i)

RunSpec == InitRun /\ [][NextRun]_vars

\* What the verifier's lookups yield in the runs checked for termination: a
\* failing RPC call and a page that confirms.
LiveOutcomes == {"fetchThrows", "pageSuccess"}

\* A collaborator call the invocation awaits throws or returns.
Answers(i) ==
    \/ \E err \in Thrown : BalanceThrows(i, err)
    \/ \E b \in Balances : BalanceReturns(i, b)
    \/ \E reachable \in BOOLEAN : BountiesProbed(i, reachable)
    \/ \E outcome \in GatewayOutcomes : GatewayProbed(i, outcome)
    \/ EarnThrows(i, RpcError)
    \/ \E r \in EarnResults : EarnReturns(i, r)
    \/ SpendThrows(i, RpcError)
    \/ \E r \in SpendResults : SpendReturns(i, r)
    \/ VerifyWithoutToken(i)
    \/ \E outcome \in LiveOutcomes : VerifyDigest(i, outcome)

\* Serialized cycles, up to MaxLive of them, on a clock that stands still,
\* in which every awaited collaborator call eventually returns or throws.
NextLive == \E i \in SerialInvs : (StartCycleUpTo(i, MaxLive) \/ Answers(i))

LiveSpec == Init /\ [][NextLive]_vars /\ WF_vars(\E i \in SerialInvs : Answers(i))

\* runCycle() is called while another invocation may be between two of its
\* awaits (the controller does not refuse it): up to the first await.
StartOverlapping(i) ==
    /\ inv[i].pc = "idle"
    /\ snap = Nothing
    /\ state.cycleCount < MaxOverlap
    /\ Apply(i, [state |-> [state EXCEPT !.cycleCount = @ + 1],
                 entries |-> entries,
                 inv |-> [IdleInv EXCEPT !.pc = "getBalance",
                                         !.cycleNumber = CycleNumberOf(state.cycleCount),
                                         !.start = now,
                                         !.phases = InitialPhases(state.mode, now),
                                         !.calls = <<<<"getBalance", "">>>>,
                                         !.pre = [len |-> Len(entries),
                                                  totalEarned |-> state.totalEarned,
                                                  totalSpent |-> state.totalSpent]]])

\* What earn() returns in the overlapping runs: no claim, or a successful one.
OverlapEarnResults == {[claims |-> <<>>], [claims |-> <<OkClaim>>]}

StepOverlap(i) ==
    \/ StartOverlapping(i)
    \/ \E b \in Balances : BalanceReturns(i, b)
    \/ BountiesProbed(i, TRUE)
    \/ GatewayProbed(i, "ok")
    \/ \E r \in OverlapEarnResults : EarnReturns(i, r)
    \/ EarnThrows(i, RpcError)
    \/ SpendReturns(i, [protections |-> <<OkProtection>>])
    \/ VerifyWithoutToken(i)

\* Up to MaxOverlap invocations of runCycle() on one controller by a caller
\* that does not serialize them: the steps of two invocations interleave at
\* their awaits.
NextOverlap == \E i \in AllInvs : StepOverlap(i)

OverlapSpec == InitRun /\ [][NextOverlap]_vars

\* -------------------------------------------------- claims on the controller
\* The invocation of the serialized caller.
Cyc == inv[1]

HasCall(c, name) == \E k \in 1..Len(c.calls) : c.calls[k][1] = name

Returned(c) == c.pc = "idle" /\ c.ret # Nothing

\* C1: runCycle never throws to its caller, whichever collaborator call throws:
\* a cycle that has ended has returned a result; a result with success = false
\* carries an error that is a string, one with success = true carries none.
C1_NeverThrows ==
    /\ ~Cyc.threw
    /\ (Cyc.pc = "idle" /\ Cyc.calls # <<>>) =>
          /\ Cyc.ret # Nothing
          /\ Cyc.ret[1].success => Cyc.ret[1].error = Nothing
          /\ ~Cyc.ret[1].success => (Cyc.ret[1].error # Nothing /\ Cyc.ret[1].error[1] \in STRING)

\* C1 witness: the balance query threw something that is no Error, and the
\* cycle returned a failure whose error is its text.
C1_Witness ==
    /\ Returned(Cyc)
    /\ Cyc.calls = <<<<"getBalance", "">>>>
    /\ ~Cyc.ret[1].success
    /\ Cyc.ret[1].error = Some("42")

\* C2: the cycle numbers returned by N serialized calls are 1, 2, ..., N in
\* call order, whether the cycles succeed or fail, and cycleCount is the number
\* of calls made.
C2_CycleNumbers ==
    /\ hist.numbers = [k \in 1..Len(hist.numbers) |-> k]
    /\ Cyc.pc = "idle" => state.cycleCount = Len(hist.numbers)
    /\ Cyc.pc # "idle" => (state.cycleCount = Len(hist.numbers) + 1
                           /\ Cyc.cycleNumber = state.cycleCount)
    /\ Returned(Cyc) => Cyc.ret[1].cycleNumber = state.cycleCount

\* C2 witness: a third cycle has returned, failed, after a successful one.
C2_Witness ==
    /\ Returned(Cyc)
    /\ hist.numbers = <<1, 2, 3>>
    /\ ~Cyc.ret[1].success
    /\ state.lastCycleAt # Nothing

\* C3: in a cycle whose mode is STARVATION spend() is not invoked, phases.spend
\* is null in the result, and no expense entry is added to the ledger.
C3_StarvationSkipsSpend ==
    (Cyc.calls # <<>> /\ state.mode = "STARVATION") =>
        /\ ~HasCall(Cyc, "spend")
        /\ Cyc.phases.spend = Nothing
        /\ Returned(Cyc) => (Cyc.ret[1].mode = "STARVATION" /\ Cyc.ret[1].phases.spend = Nothing)
        /\ \A k \in (Cyc.pre.len + 1)..Len(entries) : entries[k].direction # "expense"

\* C3 witness: a successful cycle in STARVATION mode that recorded a claim.
C3_Witness ==
    /\ Returned(Cyc)
    /\ Cyc.ret[1].success
    /\ Cyc.ret[1].mode = "STARVATION"
    /\ Cyc.ret[1].phases.earn = Some([claims |-> <<OkClaim>>])
    /\ Len(entries) = Cyc.pre.len + 1
    /\ Cyc.ret[1].phases.spend = Nothing

\* The reachability probe of this cycle has thrown.
ProbeThrew(c) == HasCall(c, "fetchHealth") /\ ~c.bountyBoardReachable

\* C4: when the bounty-list probe throws the cycle is aborted as a failure:
\* earn(), spend(), audit generation and verification are not invoked and
\* phases.earn, spend, audit and verify are null in the result.
C4_UnreachableAborts ==
    ProbeThrew(Cyc) =>
        /\ ~HasCall(Cyc, "earn") /\ ~HasCall(Cyc, "spend") /\ ~HasCall(Cyc, "verify")
        /\ Cyc.phases.audit = Nothing
        /\ Cyc.pc \in {"gateway", "idle"}
        /\ Cyc.pc = "idle" =>
              /\ Returned(Cyc)
              /\ ~Cyc.ret[1].success
              /\ Cyc.ret[1].phases.earn = Nothing /\ Cyc.ret[1].phases.spend = Nothing
              /\ Cyc.ret[1].phases.audit = Nothing /\ Cyc.ret[1].phases.verify = Nothing

\* C4 witness: a cycle with a sufficient balance returned the failure of an
\* unreachable earning source.
C4_Witness ==
    /\ Returned(Cyc)
    /\ ProbeThrew(Cyc)
    /\ Cyc.ret[1].phases.healthCheck.sufficientBalance
    /\ Cyc.ret[1].error = Some("BountyBoard contract unreachable")

RECURSIVE SuccessfulOf(_)
SuccessfulOf(xs) ==
    IF xs = <<>> THEN <<>>
    ELSE (IF Head(xs).success THEN <<Head(xs)>> ELSE <<>>) \o SuccessfulOf(Tail(xs))

RECURSIVE SumRewards(_)
SumRewards(xs) == IF xs = <<>> THEN 0 ELSE Head(xs).rewardAmount + SumRewards(Tail(xs))

RECURSIVE SumGas(_)
SumGas(xs) == IF xs = <<>> THEN 0 ELSE Head(xs).gasSpent + SumGas(Tail(xs))

ClaimsOf(c) == IF c.phases.earn = Nothing THEN <<>> ELSE c.phases.earn[1].claims

ProtectionsOf(c) == IF c.phases.spend = Nothing THEN <<>> ELSE c.phases.spend[1].protections

\* C5: a claim or protection with success = false produces no ledger entry and
\* changes no total (the entries and totals added by a cycle are those of its
\* successful claims and protections), and it does not abort the cycle: a cycle
\* in which earn() and, when invoked, spend() returned is successful and leaves
\* consecutiveFailures at 0, even if every claim and protection failed.
C5_FailedAttemptsDegrade ==
    /\ Len(entries) = Cyc.pre.len + Len(SuccessfulOf(ClaimsOf(Cyc)))
                                  + Len(SuccessfulOf(ProtectionsOf(Cyc)))
    /\ \A k \in (Cyc.pre.len + 1)..Len(entries) :
          IF entries[k].direction = "income"
          THEN \E x \in 1..Len(ClaimsOf(Cyc)) :
                  ClaimsOf(Cyc)[x].success /\ ClaimsOf(Cyc)[x].rewardAmount = entries[k].amount
          ELSE \E x \in 1..Len(ProtectionsOf(Cyc)) :
                  ProtectionsOf(Cyc)[x].success /\ ProtectionsOf(Cyc)[x].gasSpent = entries[k].amount
    /\ state.totalEarned = Cyc.pre.totalEarned + SumRewards(SuccessfulOf(ClaimsOf(Cyc)))
    /\ state.totalSpent = Cyc.pre.totalSpent + SumGas(SuccessfulOf(ProtectionsOf(Cyc)))
    /\ (Returned(Cyc) /\ Cyc.phases.earn # Nothing
        /\ (Cyc.phases.spend # Nothing \/ Cyc.ret[1].mode = "STARVATION")) =>
          (Cyc.ret[1].success /\ state.consecutiveFailures = 0)

\* C5 witness: a cycle whose only claim and only protection failed returned
\* success and added nothing to the ledger.
C5_Witness ==
    /\ Returned(Cyc)
    /\ Cyc.ret[1].success
    /\ ClaimsOf(Cyc) = <<FailedClaim>>
    /\ ProtectionsOf(Cyc) = <<FailedProtection>>
    /\ Len(entries) = Cyc.pre.len
    /\ state.totalEarned = Cyc.pre.totalEarned /\ state.totalSpent = Cyc.pre.totalSpent
    /\ state.consecutiveFailures = 0

\* C6: the health check recommends ERROR exactly when the 3 or more cycles
\* before it all returned success = false (hist.failRun counts the failed
\* cycles since the last successful one); consecutiveFailures is that count,
\* so one successful cycle resets it to 0.
C6_ErrorAfterThreeFailures ==
    /\ Cyc.pc \in {"earn", "spend", "verify"} =>
          (Cyc.phases.healthCheck.recommendedMode = "ERROR" <=> hist.failRun >= 3)
    /\ (Returned(Cyc) /\ HasCall(Cyc, "fetchHealth") /\ ~Cyc.ret[1].success) =>
          (Cyc.ret[1].phases.healthCheck.recommendedMode = "ERROR" <=> hist.failRun - 1 >= 3)
    /\ Cyc.pc = "idle" => state.consecutiveFailures = hist.failRun
    /\ (Returned(Cyc) /\ Cyc.ret[1].success) => state.consecutiveFailures = 0

\* C6 witness: the fifth cycle's health check recommends ERROR after a
\* successful cycle followed by three failed ones.
C6_Witness ==
    /\ Cyc.pc = "earn"
    /\ Cyc.phases.healthCheck.recommendedMode = "ERROR"
    /\ hist.failRun = 3
    /\ state.cycleCount = 5
    /\ state.lastCycleAt # Nothing

FailedOutcomes == {"fetchThrows", "statusNotOk", "payloadError", "pageNeither"}

\* C7: a verification attempt that fails for a transaction id is recorded as
\* verified = false for that id, no id is attempted twice in a cycle, and a
\* cycle that made attempts returns success = true with consecutiveFailures 0;
\* without an access token no attempt is made and every id is unverified.
C7_VerificationNeverAborts ==
    /\ \A a, b \in 1..Len(Cyc.attempts) : a # b => Cyc.attempts[a][1] # Cyc.attempts[b][1]
    /\ Len(Cyc.attempts) <= Len(Cyc.details)
    /\ \A k \in 1..Len(Cyc.attempts) :
          /\ Cyc.details[k].txDigest = Cyc.attempts[k][1]
          /\ Cyc.attempts[k][2] \in FailedOutcomes => ~Cyc.details[k].verified
    /\ Cyc.attempts # <<>> => Cyc.pc \in {"verify", "idle"}
    /\ (Returned(Cyc) /\ Cyc.ret[1].phases.verify # Nothing /\ ~token) =>
          /\ Cyc.ret[1].success
          /\ \A k \in 1..Len(Cyc.details) : ~Cyc.details[k].verified
    /\ (Cyc.attempts # <<>> /\ Cyc.pc = "idle") =>
          /\ Returned(Cyc)
          /\ Cyc.ret[1].success
          /\ state.consecutiveFailures = 0
          /\ Cyc.ret[1].phases.verify # Nothing
          /\ Cyc.ret[1].phases.verify[1].details = Cyc.details

\* C7 witness: a successful cycle with two attempts, the first of which threw
\* and is reported unverified while the second was confirmed.
C7_Witness ==
    /\ Returned(Cyc)
    /\ Cyc.ret[1].success
    /\ Len(Cyc.attempts) = 2
    /\ Cyc.attempts[1][2] = "fetchThrows"
    /\ ~Cyc.ret[1].phases.verify[1].details[1].verified
    /\ Cyc.ret[1].phases.verify[1].details[2].verified
    /\ Cyc.ret[1].phases.verify[1].transactionsVerified = 1

\* The mode the health check is to recommend for a balance and a count of
\* consecutive failures.
ExpectedMode(balance, failures) ==
    IF failures >= 3 THEN "ERROR"
    ELSE IF ~(balance > StarvationThreshold) THEN "STARVATION" ELSE "NORMAL"

\* C12: a health check that returns reports sufficientBalance = (balance >
\* threshold) and recommends ERROR when consecutiveFailures >= 3, otherwise
\* STARVATION when the balance is not above the threshold, otherwise NORMAL,
\* whatever the two reachability probes answered.
C12_HealthCheckMode ==
    LET hc == Cyc.phases.healthCheck IN
    /\ Cyc.pc \in {"earn", "spend", "verify"} =>
          /\ hc.balance = Cyc.balance
          /\ hc.sufficientBalance = (Cyc.balance > StarvationThreshold)
          /\ hc.recommendedMode = ExpectedMode(Cyc.balance, state.consecutiveFailures)
    /\ (Returned(Cyc) /\ ProbeThrew(Cyc)) =>
          /\ hc.balance = Cyc.balance
          /\ hc.sufficientBalance = (Cyc.balance > StarvationThreshold)
          /\ hc.recommendedMode = ExpectedMode(Cyc.balance, state.consecutiveFailures - 1)

\* C12 witness: with a balance equal to the threshold, three failures behind
\* it and the gateway down, the health check recommended ERROR.
C12_Witness ==
    /\ Cyc.pc = "earn"
    /\ Cyc.balance = StarvationThreshold
    /\ ~Cyc.phases.healthCheck.sufficientBalance
    /\ ~Cyc.phases.healthCheck.openclawGatewayReachable
    /\ state.consecutiveFailures = 3
    /\ Cyc.phases.healthCheck.recommendedMode = "ERROR"

\* The balance query of the invocation has returned.
BalanceObserved(c) == HasCall(c, "getAvailableBounties")

\* C13: the mode reported by a CycleResult, and held by the controller after
\* that cycle, is the mode computed from the cycle's own balance observation and
\* the consecutive-failure count at its start (ERROR from 3 failures on), also
\* in a cycle whose health check fails; it is not the mode of an earlier cycle.
C13_ModeNeverStale ==
    [][(inv[1].pc # "idle" /\ inv'[1].pc = "idle" /\ inv'[1].ret # Nothing) =>
          /\ inv'[1].ret[1].mode = state'.mode
          /\ state.consecutiveFailures >= 3 => inv'[1].ret[1].mode = "ERROR"
          /\ (state.consecutiveFailures < 3 /\ BalanceObserved(inv'[1])) =>
                inv'[1].ret[1].mode = ExpectedMode(inv'[1].balance, state.consecutiveFailures)]_vars

\* C14: a cycle aborted because the earning source is unreachable leaves the
\* ledger entries, totalEarned, totalSpent and lastCycleAt as they were when it
\* started; it adds one to consecutiveFailures (cycleCount and the mode are
\* the other fields it may change).
C14_AbortFrame ==
    [][/\ inv'[1].pc \in {"getBalance", "probe", "gateway"} =>
             /\ entries' = entries
             /\ state'.lastCycleAt = state.lastCycleAt
             /\ state'.totalEarned = state.totalEarned /\ state'.totalSpent = state.totalSpent
             /\ state'.consecutiveFailures = state.consecutiveFailures
       /\ (inv[1].pc = "gateway" /\ inv'[1].pc = "idle" /\ ProbeThrew(inv'[1])) =>
             /\ entries' = entries
             /\ Len(entries') = inv'[1].pre.len
             /\ state'.totalEarned = inv'[1].pre.totalEarned
             /\ state'.totalSpent = inv'[1].pre.totalSpent
             /\ state'.lastCycleAt = state.lastCycleAt
             /\ state'.consecutiveFailures = state.consecutiveFailures + 1
             /\ state'.cycleCount = state.cycleCount]_vars

\* C14 witness: a cycle aborted for an unreachable earning source, later than
\* the stamp of an earlier successful cycle that had recorded a claim.
C14_Witness ==
    /\ Returned(Cyc)
    /\ ProbeThrew(Cyc)
    /\ ~Cyc.ret[1].success
    /\ Len(entries) = 1 /\ state.totalEarned = 10
    /\ state.lastCycleAt = Some(0) /\ now = 1 /\ Cyc.start = 1
    /\ state.consecutiveFailures = 1

\* C17: getState() returns the controller's mode, cycleCount, lastCycleAt,
\* consecutiveFailures, totalEarned and totalSpent and changes nothing; neither
\* does an assignment to a field of the returned object, so a later getState()
\* returns the same state and runCycle() starts from it.
C17_SnapshotReadOnly ==
    /\ [](snap # Nothing /\ ~snap[1].assigned =>
            /\ snap[1].fields = state
            /\ DOMAIN snap[1].fields = {"mode", "cycleCount", "lastCycleAt", "consecutiveFailures",
                                        "totalEarned", "totalSpent"})
    /\ [][snap' # snap => (state' = state /\ entries' = entries /\ inv' = inv /\ hist' = hist)]_vars

\* C17 witness: after three cycles the caller holds a snapshot to which it has
\* assigned consecutiveFailures 3, while the controller's count is still 0.
C17_Witness ==
    /\ snap # Nothing /\ snap[1].assigned
    /\ snap[1].fields.consecutiveFailures = 3 /\ state.consecutiveFailures = 0
    /\ state.cycleCount = 3 /\ state.totalEarned = 10 /\ state.lastCycleAt # Nothing
    /\ snap[1].fields.cycleCount = 3 /\ snap[1].fields.totalEarned = 10

\* The place of a collaborator call in the order of the phases.
Rank(name) ==
    CASE name = "getBalance" -> 1
      [] name = "getAvailableBounties" -> 2
      [] name = "fetchHealth" -> 3
      [] name = "earn" -> 4
      [] name = "spend" -> 5
      [] name = "verify" -> 6

\* C19: the phases of a cycle run in the order health, earn, spend, audit,
\* verify, report: earn() is called only after the health check has returned,
\* spend() only after every successful claim has been recorded, the audit
\* package is generated only after every successful protection has been
\* recorded, verification starts only after the audit package exists, and the
\* report is derived last.
C19_PhaseOrder ==
    LET c == Cyc
        won == SuccessfulOf(ClaimsOf(c))
        kept == SuccessfulOf(ProtectionsOf(c))
    IN /\ \A k \in 1..(Len(c.calls) - 1) :
             \/ Rank(c.calls[k][1]) < Rank(c.calls[k + 1][1])
             \/ (c.calls[k][1] = "verify" /\ c.calls[k + 1][1] = "verify")
       /\ HasCall(c, "earn") =>
             /\ HasCall(c, "getBalance") /\ HasCall(c, "getAvailableBounties")
             /\ HasCall(c, "fetchHealth")
             /\ c.phases.healthCheck.bountyBoardReachable
             /\ c.phases.healthCheck.balance = c.balance
       /\ HasCall(c, "spend") =>
             /\ c.phases.earn # Nothing
             /\ Len(entries) >= c.pre.len + Len(won)
             /\ \A j \in 1..Len(won) :
                   /\ entries[c.pre.len + j].direction = "income"
                   /\ entries[c.pre.len + j].txDigest = Some(won[j].txDigest)
       /\ c.phases.audit # Nothing =>
             /\ c.phases.earn # Nothing
             /\ HasCall(c, "spend") => c.phases.spend # Nothing
             /\ c.phases.audit[1].entries = entries
             /\ Len(entries) = c.pre.len + Len(won) + Len(kept)
             /\ \A j \in 1..Len(kept) :
                   entries[c.pre.len + Len(won) + j].blobId = Some(kept[j].upload[1].blobId)
       /\ (c.pc = "verify" \/ HasCall(c, "verify")) => c.phases.audit # Nothing
       /\ c.phases.report.pnlSummary # <<>> =>
             /\ Returned(c) /\ c.ret[1].success
             /\ c.phases.audit # Nothing
             /\ Len(c.details) = Len(c.digests)
             /\ c.phases.report.pnlSummary[1] = state.totalEarned
             /\ c.phases.report.pnlSummary[2] = state.totalSpent

\* C19 witness: a cycle made all six kinds of call in order, recorded a claim
\* and a protection before the audit package, and returned its report.
C19_Witness ==
    /\ Returned(Cyc)
    /\ Cyc.calls = <<<<"getBalance", "">>, <<"getAvailableBounties", "">>, <<"fetchHealth", "">>,
                     <<"earn", "">>, <<"spend", "">>, <<"verify", "tx1">>>>
    /\ Len(Cyc.phases.audit[1].entries) = Cyc.pre.len + 2
    /\ Cyc.ret[1].phases.report.survivalStatus = "PROFITABLE"

\* C20: consecutiveFailures is the number of cycles that returned success =
\* false since the last cycle that returned success = true; a successful cycle
\* sets it to 0 and stamps lastCycleAt, a failed cycle adds 1 and leaves
\* lastCycleAt, and no other step changes either field.
C20_FailureCounter ==
    /\ [](state.consecutiveFailures = hist.failRun)
    /\ [][LET returns == inv[1].pc # "idle" /\ inv'[1].pc = "idle" /\ inv'[1].ret # Nothing IN
          /\ (returns /\ inv'[1].ret[1].success) =>
                (state'.consecutiveFailures = 0 /\ state'.lastCycleAt = Some(now))
          /\ (returns /\ ~inv'[1].ret[1].success) =>
                /\ state'.consecutiveFailures = state.consecutiveFailures + 1
                /\ state'.lastCycleAt = state.lastCycleAt
          /\ ~returns =>
                /\ state'.consecutiveFailures = state.consecutiveFailures
                /\ state'.lastCycleAt = state.lastCycleAt]_vars

\* C20 witness: a successful cycle stamped at time 0 was followed by two
\* failed ones; the count is 2 and the stamp is still 0 at time 1.
C20_Witness ==
    /\ Returned(Cyc) /\ ~Cyc.ret[1].success
    /\ state.cycleCount = 3
    /\ state.consecutiveFailures = 2 /\ hist.failRun = 2
    /\ state.lastCycleAt = Some(0) /\ now = 1 /\ Cyc.start = 1

\* The last collaborator call the invocation made.
LastCall(c) == c.calls[Len(c.calls)][1]

\* C21: a cycle returns success = false only if the earning source was
\* unreachable or a collaborator call threw (the balance query, earn() or
\* spend()); in every mode, ERROR included, a cycle whose balance query, probe,
\* earn() and, when invoked, spend() returned normally returns success = true
\* with an audit package and resets consecutiveFailures to 0.
C21_FailureCauses ==
    LET c == Cyc IN
    /\ (Returned(c) /\ ~c.ret[1].success) =>
          \/ c.calls = <<<<"getBalance", "">>>>
          \/ (ProbeThrew(c) /\ LastCall(c) = "fetchHealth"
                /\ c.ret[1].error = Some("BountyBoard contract unreachable"))
          \/ (LastCall(c) = "earn" /\ c.phases.earn = Nothing)
          \/ (LastCall(c) = "spend" /\ c.phases.spend = Nothing)
    /\ (c.pc = "idle" /\ c.phases.earn # Nothing
          /\ (HasCall(c, "spend") => c.phases.spend # Nothing)) =>
          /\ Returned(c) /\ c.ret[1].success
          /\ c.ret[1].mode \in {"NORMAL", "STARVATION", "ERROR"}
          /\ c.ret[1].phases.audit # Nothing
          /\ state.consecutiveFailures = 0
    /\ (c.pc \notin {"idle", "getBalance", "probe", "gateway"}) =>
          c.phases.healthCheck.bountyBoardReachable

\* C21 witness: after three failed cycles the fourth ran in ERROR mode, called
\* earn() and spend(), returned success = true and reset the counter.
C21_Witness ==
    /\ Returned(Cyc) /\ Cyc.ret[1].success
    /\ Cyc.ret[1].mode = "ERROR"
    /\ Cyc.cycleNumber = 4
    /\ Cyc.ret[1].phases.spend # Nothing /\ Cyc.ret[1].phases.audit # Nothing
    /\ state.consecutiveFailures = 0 /\ state.mode = "ERROR"

\* C22: ERROR mode is sticky until a cycle succeeds: the mode a cycle ran in
\* is the controller's mode when it returns; if that mode is ERROR and the
\* cycle returned success = false, the next cycle runs in ERROR too, so the
\* mode leaves ERROR only in a cycle that follows a successful one.
C22_ErrorSticky ==
    /\ [](Returned(Cyc) => Cyc.ret[1].mode = state.mode)
    /\ [][(state.mode = "ERROR" /\ hist.failRun > 0) => state'.mode = "ERROR"]_vars

\* The non-empty transaction ids of the claims and protections the cycle's
\* earn() and spend() returned.
TxIdsOf(c) ==
    {ClaimsOf(c)[k].txDigest : k \in 1..Len(ClaimsOf(c))}
    \cup {ProtectionsOf(c)[k].upload[1].txDigest :
             k \in {j \in 1..Len(ProtectionsOf(c)) : ProtectionsOf(c)[j].upload # Nothing}}

\* C23: in a cycle that reaches verification the list handed to the verifier
\* holds every non-empty transaction id returned by this cycle's claims and
\* protections, each exactly once, and nothing else (no id of an earlier
\* cycle); the verifier runs once over that list when it is non-empty, and not
\* at all when it is empty, in which case phases.verify is null.
C23_VerifiedIds ==
    LET c == Cyc
        ids == TxIdsOf(c) \ {""}
    IN /\ c.phases.audit = Nothing => (c.digests = <<>> /\ c.details = <<>> /\ c.pc # "verify")
       /\ c.phases.audit # Nothing =>
             /\ \A d \in ids : Cardinality({k \in 1..Len(c.digests) : c.digests[k] = d}) = 1
             /\ \A k \in 1..Len(c.digests) : c.digests[k] \in ids
             /\ c.pc \in {"verify", "idle"}
             /\ ids = {} =>
                   /\ Returned(c) /\ c.ret[1].success
                   /\ c.ret[1].phases.verify = Nothing
                   /\ ~HasCall(c, "verify") /\ c.details = <<>>
             /\ ids # {} =>
                   /\ Len(c.details) <= Len(c.digests)
                   /\ \A k \in 1..Len(c.details) : c.details[k].txDigest = c.digests[k]
                   /\ c.pc = "verify" <=> Len(c.details) < Len(c.digests)
                   /\ c.pc = "idle" =>
                         /\ Returned(c) /\ c.ret[1].success
                         /\ c.ret[1].phases.verify # Nothing
                         /\ c.ret[1].phases.verify[1].details = c.details

\* C23 witness: the second cycle's reverted claim carries tx2 and its failed
\* protection no id; the verifier got tx2 alone, not the tx1 that the first
\* cycle recorded.
C23_Witness ==
    /\ Returned(Cyc) /\ Cyc.cycleNumber = 2
    /\ Cyc.pre.len = 1 /\ entries[1].txDigest = Some("tx1")
    /\ ClaimsOf(Cyc) = <<RevertedClaim>> /\ ProtectionsOf(Cyc) = <<FailedProtection>>
    /\ Cyc.digests = <<"tx2">>
    /\ Cyc.ret[1].phases.verify # Nothing
    /\ Len(Cyc.ret[1].phases.verify[1].details) = 1

\* C24: the audit package is produced in every cycle that passes the
\* reachability check and whose earn() and spend() do not throw, in every
\* mode; a successful CycleResult has phases.earn and phases.audit, and
\* audit.entries is the whole ledger in insertion order, the entries of
\* earlier cycles followed by those of this one.
C24_AuditAlways ==
    LET c == Cyc
        added == Len(SuccessfulOf(ClaimsOf(c))) + Len(SuccessfulOf(ProtectionsOf(c)))
    IN /\ (c.phases.earn # Nothing /\ c.pc # "spend"
             /\ (HasCall(c, "spend") => c.phases.spend # Nothing)) =>
             c.phases.audit # Nothing
       /\ (Returned(c) /\ c.ret[1].success) =>
             /\ c.ret[1].phases.earn # Nothing
             /\ c.ret[1].phases.audit # Nothing
             /\ c.ret[1].phases.audit[1].entries = entries
             /\ Len(c.ret[1].phases.audit[1].entries) = c.pre.len + added
             /\ \A k \in 1..Len(entries) : c.ret[1].phases.audit[1].entries[k].id = k
             /\ c.ret[1].phases.audit[1].agentAddress = AgentAddress

\* C24 witness: a second cycle, in STARVATION mode, returned an audit package
\* with the entry of the first cycle followed by its own.
C24_Witness ==
    /\ Returned(Cyc) /\ Cyc.ret[1].success
    /\ Cyc.ret[1].mode = "STARVATION" /\ Cyc.cycleNumber = 2
    /\ Cyc.pre.len = 1
    /\ Len(Cyc.ret[1].phases.audit[1].entries) = 2
    /\ Cyc.ret[1].phases.audit[1].entries[2].direction = "income"

\* The income of a ledger less its expense.
RECURSIVE NetOf(_)
NetOf(es) ==
    IF es = <<>> THEN 0
    ELSE (IF Head(es).direction = "income" THEN Head(es).amount ELSE 0 - Head(es).amount)
         + NetOf(Tail(es))

\* C25: the survival status of a successful cycle's report depends only on the
\* sign of the ledger's net profit at report time: profitable when it is
\* positive, break-even when zero, loss when negative, exactly one of the
\* three, whatever the mode, the balance and the outcome of verification.
C25_SurvivalBySign ==
    LET c == Cyc IN
    (Returned(c) /\ c.ret[1].success) =>
        LET status == c.ret[1].phases.report.survivalStatus
            net == NetOf(entries)
        IN /\ status \in {"PROFITABLE", "BREAK-EVEN", "LOSS"}
           /\ status = "PROFITABLE" <=> net > 0
           /\ status = "BREAK-EVEN" <=> net = 0
           /\ status = "LOSS" <=> net < 0
           /\ c.ret[1].phases.report.pnlSummary[3] = net

\* C25 witness: a successful cycle in NORMAL mode with a sufficient balance
\* and a confirmed verification recorded a protection and no claim: a loss.
C25_Witness ==
    /\ Returned(Cyc) /\ Cyc.ret[1].success
    /\ Cyc.ret[1].mode = "NORMAL"
    /\ Cyc.ret[1].phases.healthCheck.sufficientBalance
    /\ Cyc.ret[1].phases.verify # Nothing /\ Cyc.ret[1].phases.verify[1].allVerified
    /\ NetOf(entries) < 0
    /\ Cyc.ret[1].phases.report.survivalStatus = "LOSS"

\* C26: the details of verifyOnChain(ids) have one element per input id, in
\* input order, each carrying its id; transactionsVerified is the number of
\* details with verified = true; allVerified is true exactly when every detail
\* is verified (so it is true for an empty input); without an access token no
\* detail is verified.
C26_VerifyResultShape ==
    LET c == Cyc IN
    /\ VerifyResult(<<>>) = [transactionsVerified |-> 0, allVerified |-> TRUE, details |-> <<>>]
    /\ (Returned(c) /\ c.ret[1].phases.verify # Nothing) =>
          LET v == c.ret[1].phases.verify[1]
              ok == {k \in 1..Len(v.details) : v.details[k].verified}
          IN /\ Len(v.details) = Len(c.digests)
             /\ \A k \in 1..Len(v.details) :
                   /\ v.details[k].txDigest = c.digests[k]
                   /\ v.details[k].explorerUrl = ExplorerUrl(c.digests[k])
             /\ v.transactionsVerified = Cardinality(ok)
             /\ v.allVerified <=> (ok = 1..Len(v.details))
             /\ ~token => (ok = {} /\ v.transactionsVerified = 0 /\ ~v.allVerified)
             /\ token => \A k \in 1..Len(v.details) :
                   v.details[k].verified <=> c.attempts[k][2] \in {"pageSuccess", "pageDigest"}

\* C26 witness: two ids were handed over, tx2 then tx1; with a token the page
\* of the first showed neither mark and that of the second showed the id: one
\* of two verified, allVerified false.
C26_Witness ==
    /\ Returned(Cyc) /\ token
    /\ Cyc.digests = <<"tx2", "tx1">>
    /\ Cyc.attempts = <<<<"tx2", "pageNeither">>, <<"tx1", "pageDigest">>>>
    /\ Cyc.ret[1].phases.verify[1].transactionsVerified = 1
    /\ ~Cyc.ret[1].phases.verify[1].allVerified
    /\ Cyc.ret[1].phases.verify[1].details[2].verified

\* C30: an unreachable execution gateway is soft: when the gateway probe fails
\* or throws the health check still returns, with openclawGatewayReachable =
\* false, the recommended mode is what the balance and the failure count make
\* it, and the cycle goes on to earn(); the unreachable earning source is the
\* only health observation that aborts the cycle.
C30_GatewaySoft ==
    LET c == Cyc
        hc == c.phases.healthCheck
    IN (HasCall(c, "fetchHealth") /\ c.pc # "gateway") =>
          /\ hc.bountyBoardReachable = c.bountyBoardReachable
          /\ hc.balance = c.balance
          /\ hc.bountyBoardReachable => HasCall(c, "earn")
          /\ ~hc.bountyBoardReachable =>
                /\ Returned(c) /\ ~c.ret[1].success
                /\ c.ret[1].error = Some("BountyBoard contract unreachable")
          /\ c.pc \in {"earn", "spend", "verify"} =>
                /\ hc.recommendedMode = ExpectedMode(c.balance, state.consecutiveFailures)
                /\ state.mode = hc.recommendedMode
          /\ (Returned(c) /\ c.ret[1].success) => c.ret[1].phases.healthCheck = hc

\* C30 witness: with the gateway unreachable and the earning source reachable,
\* a cycle with a sufficient balance ran in NORMAL mode, called earn() and
\* spend() and returned success = true.
C30_Witness ==
    /\ Returned(Cyc) /\ Cyc.ret[1].success
    /\ ~Cyc.ret[1].phases.healthCheck.openclawGatewayReachable
    /\ Cyc.ret[1].phases.healthCheck.bountyBoardReachable
    /\ Cyc.ret[1].phases.healthCheck.sufficientBalance
    /\ Cyc.ret[1].mode = "NORMAL"
    /\ HasCall(Cyc, "earn") /\ HasCall(Cyc, "spend")

\* How far an invocation is from its return: the await it is suspended at, and
\* at the verifier the number of identifiers still to inspect.
AwaitRank(c) ==
    CASE c.pc = "idle" -> 0
      [] c.pc = "verify" -> 1
      [] c.pc = "spend" -> 2
      [] c.pc = "earn" -> 3
      [] c.pc = "gateway" -> 4
      [] c.pc = "probe" -> 5
      [] c.pc = "getBalance" -> 6

ToInspect(c) == Len(c.digests) - Len(c.details)

\* C31: every runCycle() invocation eventually returns a CycleResult, provided
\* each collaborator call it awaits eventually returns or throws; the
\* controller adds no retry or waiting of its own: every answer moves the
\* invocation to a later await, or at the verifier to the next identifier.
C31_CycleReturns ==
    /\ (Cyc.pc # "idle") ~> Returned(Cyc)
    /\ [][inv[1].pc # "idle" =>
             \/ AwaitRank(inv'[1]) < AwaitRank(inv[1])
             \/ (AwaitRank(inv'[1]) = AwaitRank(inv[1]) /\ ToInspect(inv'[1]) < ToInspect(inv[1]))]_vars

\* C31 witness: a second cycle returned after two verification requests, the
\* first of which threw.
C31_Witness ==
    /\ Returned(Cyc) /\ Cyc.cycleNumber = 2
    /\ Len(Cyc.attempts) = 2 /\ Cyc.attempts[1][2] = "fetchThrows"
    /\ Cyc.ret[1].success

\* C33: spend() is never invoked in a cycle whose health check observed a
\* balance at or below the starvation threshold, whatever the number of
\* consecutive failures, so also when the active mode is ERROR.
C33_NoSpendBelowThreshold ==
    HasCall(Cyc, "spend") => Cyc.sufficientBalance

\* C34 as stated: a cycle that returned success = false left the ledger's
\* entries and the totals as they were before it, at whatever phase it failed.
C34_FailedCycleUntouched ==
    (Returned(Cyc) /\ ~Cyc.ret[1].success) =>
        /\ Len(entries) = Cyc.pre.len
        /\ state.totalEarned = Cyc.pre.totalEarned
        /\ state.totalSpent = Cyc.pre.totalSpent

\* C34: a cycle that returned success = false has rolled nothing back: the
\* entries and the total earned are those before the cycle plus what its
\* successful claims added before the failure, the total spent is as before the
\* cycle, and when the failure came before earn() returned the entries and both
\* totals are exactly as before the cycle.
C34_FailedCycleKeepsClaims ==
    (Returned(Cyc) /\ ~Cyc.ret[1].success) =>
        /\ Len(entries) = Cyc.pre.len + Len(SuccessfulOf(ClaimsOf(Cyc)))
        /\ \A k \in (Cyc.pre.len + 1)..Len(entries) :
              /\ entries[k].direction = "income"
              /\ entries[k].source = "bounty_reward"
        /\ state.totalEarned = Cyc.pre.totalEarned + SumRewards(SuccessfulOf(ClaimsOf(Cyc)))
        /\ state.totalSpent = Cyc.pre.totalSpent
        /\ Cyc.phases.spend = Nothing
        /\ Cyc.phases.earn = Nothing =>
              (Len(entries) = Cyc.pre.len /\ state.totalEarned = Cyc.pre.totalEarned)

\* C34 witness: spend() threw after a successful claim had been recorded; the
\* cycle returned success = false and the claim's entry is in the ledger.
C34_Witness ==
    /\ Returned(Cyc) /\ ~Cyc.ret[1].success
    /\ LastCall(Cyc) = "spend"
    /\ ClaimsOf(Cyc) = <<OkClaim>>
    /\ Len(entries) = Cyc.pre.len + 1
    /\ state.totalEarned = Cyc.pre.totalEarned + OkClaim.rewardAmount

DigestsOf(c) == {c.digests[k] : k \in 1..Len(c.digests)}

C36_TotalsMatchLedger ==
    LET pnl == generatePnL(entries, Nothing, Nothing, now)
    IN /\ state.totalEarned = pnl.totalIncome
       /\ state.totalSpent = pnl.totalExpense
       /\ getState(state).fields.totalEarned = pnl.totalIncome
       /\ getState(state).fields.totalSpent = pnl.totalExpense
       /\ pnl.transactionCount = Len(entries)
       /\ \A k \in 1..Len(entries) :
             \/ entries[k].direction = "income" /\ entries[k].source = "bounty_reward"
             \/ entries[k].direction = "expense" /\ entries[k].source = "seal_encryption"
       /\ pnl.totalIncome = Cyc.pre.totalEarned + SumRewards(SuccessfulOf(ClaimsOf(Cyc)))
       /\ pnl.totalExpense = Cyc.pre.totalSpent + SumGas(SuccessfulOf(ProtectionsOf(Cyc)))
       /\ Len(entries) = Cyc.pre.len + Len(SuccessfulOf(ClaimsOf(Cyc)))
                                     + Len(SuccessfulOf(ProtectionsOf(Cyc)))

\* C36 witness: after a cycle that recorded a protection, the second cycle
\* failed at spend() after recording a claim; the ledger holds both entries and
\* the totals are their amounts.
C36_Witness ==
    /\ Returned(Cyc) /\ ~Cyc.ret[1].success
    /\ Cyc.cycleNumber = 2
    /\ Len(entries) = 2
    /\ state.totalEarned = OkClaim.rewardAmount
    /\ state.totalSpent = OkProtection.gasSpent

\* C37: in every state getState() can observe between two cycles, mode = ERROR
\* implies consecutiveFailures >= 3; after a cycle that ran in ERROR and
\* succeeded the state no longer reports ERROR.
C37_ErrorImpliesFailures ==
    (Cyc.pc = "idle" /\ getState(state).fields.mode = "ERROR") =>
        getState(state).fields.consecutiveFailures >= FailureThreshold

\* The health check of invocation c has returned and the cycle went on to earn().
HealthChecked(c) == HasCall(c, "earn")

\* C38 as stated: also when invocations overlap, a cycle whose own health check
\* recommended STARVATION never invokes spend(), and the mode in a cycle's
\* result is the mode its own health check recommended.
C38_OwnModeGoverns ==
    \A i \in AllInvs :
        HealthChecked(inv[i]) =>
            /\ inv[i].phases.healthCheck.recommendedMode = "STARVATION" => ~HasCall(inv[i], "spend")
            /\ Returned(inv[i]) => inv[i].ret[1].mode = inv[i].phases.healthCheck.recommendedMode

\* C38: when invocations overlap the mode is the controller's one shared field,
\* written by the health check of whichever invocation completed one last: an
\* invocation goes from earn() to spend() exactly when the mode the controller
\* holds as its earn() returns is not STARVATION, and the mode in its result is
\* the mode the controller holds as it returns.
C38_SharedModeGoverns ==
    [][/\ \A i \in AllInvs :
             /\ (inv[i].pc = "earn" /\ inv'[i].pc = "spend") => state.mode # "STARVATION"
             /\ (inv[i].pc = "earn" /\ inv'[i].pc \in {"verify", "idle"}
                 /\ inv'[i].phases.earn # Nothing) => state.mode = "STARVATION"
             /\ (inv[i].pc # "idle" /\ Returned(inv'[i])) =>
                    /\ inv'[i].ret[1].mode = state.mode
                    /\ inv'[i].ret[1].mode = state'.mode
       /\ state'.mode # state.mode =>
             \E i \in AllInvs :
                 /\ inv[i].pc = "gateway"
                 /\ inv'[i].phases.healthCheck.recommendedMode = state'.mode]_vars

\* C38 witness: an invocation whose own health check recommended STARVATION
\* called spend() and returned a result reporting NORMAL, the mode another
\* invocation's health check had set in between.
C38_Witness ==
    \E i \in AllInvs :
        /\ Returned(inv[i]) /\ inv[i].ret[1].success
        /\ inv[i].phases.healthCheck.recommendedMode = "STARVATION"
        /\ HasCall(inv[i], "spend")
        /\ inv[i].ret[1].mode = "NORMAL"

Running == {i \in AllInvs : inv[i].pc # "idle"}

\* C39: also when invocations overlap, every invocation has a cycle number of
\* its own, cycleCount is the number of invocations started, and the totals
\* are the sums of the amounts recorded in the ledger: no update of a counter
\* is lost.
C39_NoLostUpdate ==
    /\ \A i \in Running : \A j \in Running : inv[i].cycleNumber = inv[j].cycleNumber => i = j
    /\ \A i \in Running : \A k \in 1..Len(hist.numbers) : hist.numbers[k] # inv[i].cycleNumber
    /\ \A k \in 1..Len(hist.numbers) : \A m \in 1..Len(hist.numbers) :
          hist.numbers[k] = hist.numbers[m] => k = m
    /\ \A i \in AllInvs : Returned(inv[i]) => inv[i].ret[1].cycleNumber = inv[i].cycleNumber
    /\ state.cycleCount = Len(hist.numbers) + Cardinality(Running)
    /\ \A i \in Running : inv[i].cycleNumber \in 1..state.cycleCount
    /\ state.totalEarned = generatePnL(entries, Nothing, Nothing, now).totalIncome
    /\ state.totalSpent = generatePnL(entries, Nothing, Nothing, now).totalExpense

\* C39 witness: two invocations that both started on the empty ledger have
\* each recorded a claim and a protection and returned, with cycle numbers 1
\* and 2; the totals hold both claims and both protections.
C39_Witness ==
    /\ \A i \in AllInvs :
          /\ Returned(inv[i]) /\ inv[i].ret[1].success
          /\ inv[i].pre.len = 0
          /\ ClaimsOf(inv[i]) = <<OkClaim>>
          /\ HasCall(inv[i], "spend")
    /\ {inv[i].ret[1].cycleNumber : i \in AllInvs} = {1, 2}
    /\ state.cycleCount = 2
    /\ state.totalEarned = 2 * OkClaim.rewardAmount
    /\ state.totalSpent = 2 * OkProtection.gasSpent

\* --------------------------------------------- the Ledger driven on its own
Record(e) ==
    /\ Len(entries) < MaxEntries
    /\ entries' = record(entries, now, e)
    /\ ledgerRet' = Some([op |-> "record", input |-> e, value |-> entries'[Len(entries')]])
    /\ pnlRet' = Nothing
    /\ auditRet' = Nothing
    /\ UNCHANGED <<now, state, snap, inv, token, hist>>

RecordEarning(c) ==
    /\ Len(entries) < MaxEntries
    /\ entries' = recordEarning(entries, now, c)
    /\ ledgerRet' = Some([op |-> "recordEarning", input |-> c, value |-> entries'[Len(entries')]])
    /\ pnlRet' = Nothing
    /\ auditRet' = Nothing
    /\ UNCHANGED <<now, state, snap, inv, token, hist>>

RecordSpending(p) ==
    /\ Len(entries) < MaxEntries
    /\ entries' = recordSpending(entries, now, p)
    /\ ledgerRet' = Some([op |-> "recordSpending", input |-> p, value |-> entries'[Len(entries')]])
    /\ pnlRet' = Nothing
    /\ auditRet' = Nothing
    /\ UNCHANGED <<now, state, snap, inv, token, hist>>

GeneratePnL(from, to) ==
    /\ pnlRet' = Some([from |-> from, to |-> to, report |-> generatePnL(entries, from, to, now)])
    /\ UNCHANGED <<entries, now, auditRet, ledgerRet, state, snap, inv, token, hist>>

GenerateAuditPackage(a) ==
    /\ auditRet' = Some(generateAuditPackage(entries, a, now))
    /\ UNCHANGED <<entries, now, pnlRet, ledgerRet, state, snap, inv, token, hist>>

\* The list is handed to the caller as an object of its own or as the
\* ledger's array (object tells which).
GetEntries(fo) ==
    /\ ledgerRet' = Some([op |-> "getEntries", input |-> fo, value |-> getEntries(entries, fo),
                          object |-> ReturnedList(fo)])
    /\ UNCHANGED <<entries, now, pnlRet, auditRet, state, snap, inv, token, hist>>

\* The caller pushes to, pops from or reverses the list getEntries returned:
\* the ledger's entries change with it only if that list is this.entries.
WriteReturnedList(w) ==
    /\ ledgerRet # Nothing
    /\ ledgerRet[1].op = "getEntries"
    /\ ledgerRet' = Some([ledgerRet[1] EXCEPT !.op = "writtenList", !.value = WriteList(@, w)])
    /\ entries' = IF ledgerRet[1].object = "entries" THEN WriteList(entries, w) ELSE entries
    /\ UNCHANGED <<now, pnlRet, auditRet, state, snap, inv, token, hist>>

PrintSummary ==
    /\ ledgerRet' = Some([op |-> "printSummary", input |-> Nothing,
                          value |-> printSummary(entries, now)])
    /\ UNCHANGED <<entries, now, pnlRet, auditRet, state, snap, inv, token, hist>>

ExportToJson ==
    /\ ledgerRet' = Some([op |-> "exportToJson", input |-> Nothing, value |-> exportToJson(entries)])
    /\ UNCHANGED <<entries, now, pnlRet, auditRet, state, snap, inv, token, hist>>

InitLedger ==
    /\ entries = <<>>
    /\ now = 0
    /\ pnlRet = Nothing
    /\ auditRet = Nothing
    /\ ledgerRet = Nothing
    /\ snap = Nothing
    /\ token = FALSE
    /\ InitAgent

NextLedger ==
    \/ Tick
    \/ \E e \in RawEntries : Record(e)
    \/ \E c \in LedgerClaims : RecordEarning(c)
    \/ \E p \in LedgerProtections : RecordSpending(p)
    \/ \E w \in Windows : GeneratePnL(w[1], w[2])
    \/ \E a \in Addresses : GenerateAuditPackage(a)
    \/ \E fo \in Filters : GetEntries(fo)
    \/ ExportToJson

LedgerSpec == InitLedger /\ [][NextLedger]_vars

\* The Ledger in the hands of a reader: entries are recorded, every read
\* operation is called, and the caller writes to the lists it was handed.
NextReader ==
    \/ \E e \in RawEntries : Record(e)
    \/ RecordEarning(OkClaim)
    \/ RecordSpending(OkProtection)
    \/ \E fo \in Filters : GetEntries(fo)
    \/ \E w \in ListWrites : WriteReturnedList(w)
    \/ GeneratePnL(Nothing, Nothing)
    \/ GenerateAuditPackage(AgentAddress)
    \/ PrintSummary
    \/ ExportToJson

ReaderSpec == InitLedger /\ [][NextReader]_vars

\* The wall clock is set back (new Date() reads the system time, which an
\* adjustment of the system clock can move to an earlier instant).
ClockSetBack ==
    /\ now > 0
    /\ now' = now - 1
    /\ UNCHANGED <<entries, pnlRet, auditRet, ledgerRet, state, snap, inv, token, hist>>

\* The Ledger on a wall clock that may be adjusted between two calls.
NextClock ==
    \/ Tick
    \/ ClockSetBack
    \/ \E e \in RawEntries : Record(e)
    \/ RecordEarning(OkClaim)
    \/ RecordSpending(OkProtection)
    \/ \E w \in Windows : GeneratePnL(w[1], w[2])

ClockSpec == InitLedger /\ [][NextClock]_vars

\* ------------------------------------------------------ claims on the Ledger
RECURSIVE SumOf(_, _)
SumOf(es, dir) ==
    IF es = <<>> THEN 0
    ELSE (IF es[Len(es)].direction = dir THEN es[Len(es)].amount ELSE 0)
         + SumOf(SubSeq(es, 1, Len(es) - 1), dir)

\* C8: generatePnL() without a window reports totalIncome = the sum of the
\* amounts of all income entries, totalExpense = the sum of the amounts of all
\* expense entries, and netProfit = totalIncome - totalExpense, negative or not.
C8_PnLAdditive ==
    (pnlRet # Nothing /\ pnlRet[1].from = Nothing /\ pnlRet[1].to = Nothing) =>
        LET r == pnlRet[1].report IN
        /\ r.totalIncome = SumOf(entries, "income")
        /\ r.totalExpense = SumOf(entries, "expense")
        /\ r.netProfit = SumOf(entries, "income") - SumOf(entries, "expense")

\* C8 witness: a report without window over an income and a larger expense,
\* whose net profit is negative.
C8_Witness ==
    /\ pnlRet # Nothing /\ pnlRet[1].from = Nothing /\ pnlRet[1].to = Nothing
    /\ Len(entries) = 2
    /\ pnlRet[1].report.totalIncome = 10
    /\ pnlRet[1].report.totalExpense = 12
    /\ pnlRet[1].report.netProfit = -2

\* C9: two generateAuditPackage() calls with the same subject address on a
\* Ledger not modified in between (record() drops auditRet) yield the same
\* checksum, whatever time elapses between them.
C9_ChecksumDeterministic ==
    [][(auditRet # Nothing /\ auditRet' # Nothing
        /\ auditRet'[1].agentAddress = auditRet[1].agentAddress)
       => auditRet'[1].checksum = auditRet[1].checksum]_vars

Carries(o) == Len(o) = 1 /\ o[1] # ""

\* The positions in the set S, in increasing order.
Ascending(S) ==
    CHOOSE f \in [1..Cardinality(S) -> S] : \A a, b \in 1..Cardinality(S) : a < b => f[a] < f[b]

CarriesTx(e) == Carries(e.txDigest)

CarriesBlob(e) == Carries(e.blobId)

CarriesProof(e) == Carries(e.taskHash) /\ Len(e.bountyId) = 1

FieldOrEmpty(o) == IF Len(o) = 1 THEN o[1] ELSE ""

\* C10: in every audit package onChainTransactions has one element per entry
\* carrying a transaction identifier, encryptedStorage one per entry carrying a
\* blob identifier, workProofs one per entry carrying both a work-proof hash and
\* a task identifier, each in insertion order with the fields of its entry.
C10_AuditShape ==
    auditRet # Nothing =>
        LET p == auditRet[1]
            tx == Ascending({k \in 1..Len(p.entries) : CarriesTx(p.entries[k])})
            st == Ascending({k \in 1..Len(p.entries) : CarriesBlob(p.entries[k])})
            wp == Ascending({k \in 1..Len(p.entries) : CarriesProof(p.entries[k])})
        IN /\ p.entries = entries
           /\ Len(p.onChainTransactions) = Len(tx)
           /\ \A k \in 1..Len(tx) :
                LET e == p.entries[tx[k]] x == p.onChainTransactions[k] IN
                /\ x.digest = e.txDigest[1] /\ x.explorerUrl = FieldOrEmpty(e.explorerUrl)
                /\ x.direction = e.direction /\ x.amount = e.amount /\ x.source = e.source
           /\ Len(p.encryptedStorage) = Len(st)
           /\ \A k \in 1..Len(st) :
                LET e == p.entries[st[k]] x == p.encryptedStorage[k] IN
                /\ x.blobId = e.blobId[1] /\ x.sealPolicyId = FieldOrEmpty(e.sealPolicyId)
                /\ x.label = e.description
           /\ Len(p.workProofs) = Len(wp)
           /\ \A k \in 1..Len(wp) :
                LET e == p.entries[wp[k]] x == p.workProofs[k] IN
                /\ x.taskHash = e.taskHash[1] /\ x.bountyId = e.bountyId[1]
                /\ x.txDigest = FieldOrEmpty(e.txDigest)

\* C10 witness: the package of a ledger of two entries of which only the income
\* entry carries a transaction identifier: one onChainTransactions element and
\* no encryptedStorage or workProofs element.
C10_Witness ==
    /\ auditRet # Nothing
    /\ Len(auditRet[1].entries) = 2
    /\ auditRet[1].entries[1].direction = "income"
    /\ auditRet[1].entries[2].direction = "expense"
    /\ CarriesTx(auditRet[1].entries[1]) /\ ~CarriesTx(auditRet[1].entries[2])
    /\ Len(auditRet[1].onChainTransactions) = 1
    /\ Len(auditRet[1].encryptedStorage) = 0
    /\ Len(auditRet[1].workProofs) = 0

RecordOps == {"record", "recordEarning", "recordSpending"}

\* C11: the Ledger is append-only: every operation leaves each stored entry at
\* its position with all its fields, removes none, and adds at most one; an
\* entry is added only by a record call, and what a record call returns is the
\* one entry it has added at the end.
C11_AppendOnly ==
    [][/\ Len(entries') >= Len(entries)
       /\ SubSeq(entries', 1, Len(entries)) = entries
       /\ Len(entries') <= Len(entries) + 1
       /\ Len(entries') = Len(entries) + 1 =>
             (ledgerRet' # Nothing /\ ledgerRet'[1].op \in RecordOps)
       /\ (ledgerRet' # Nothing /\ ledgerRet'[1].op \in RecordOps) =>
             /\ entries' # <<>>
             /\ ledgerRet'[1].value = entries'[Len(entries')]
       /\ \A j, k \in 1..Len(entries') : j # k => entries'[j].id # entries'[k].id]_vars

\* C11 witness: two entries stored at different times, after which a package
\* was generated and the entries were read through a filter.
C11_Witness ==
    /\ Len(entries) = 2
    /\ entries[1].timestamp < entries[2].timestamp
    /\ entries[1].id # entries[2].id
    /\ auditRet # Nothing
    /\ ledgerRet # Nothing /\ ledgerRet[1].op = "getEntries" /\ ledgerRet[1].input = Some(NoFilter)

\* C15: recordEarning stores an income entry of category bounty_reward whose
\* amount, work-proof hash, task id, transaction id and inspection URL are
\* those of the claim; recordSpending stores an expense entry of category
\* seal_encryption whose amount, blob id, policy id, transaction id and
\* inspection URL are those of the protection.
C15_LosslessMappings ==
    ledgerRet # Nothing =>
        LET r == ledgerRet[1] IN
        /\ r.op = "recordEarning" =>
              /\ r.value = entries[Len(entries)]
              /\ r.value.direction = "income" /\ r.value.source = "bounty_reward"
              /\ r.value.amount = r.input.rewardAmount
              /\ r.value.taskHash = Some(r.input.proofHash)
              /\ r.value.bountyId = Some(r.input.bountyId)
              /\ r.value.txDigest = Some(r.input.txDigest)
              /\ r.value.explorerUrl = Some(r.input.explorerUrl)
        /\ r.op = "recordSpending" =>
              /\ r.value = entries[Len(entries)]
              /\ r.value.direction = "expense" /\ r.value.source = "seal_encryption"
              /\ r.value.amount = r.input.gasSpent
              /\ r.value.blobId = Some(r.input.upload[1].blobId)
              /\ r.value.sealPolicyId = Some(r.input.encryption[1].sealPolicyId)
              /\ r.value.txDigest = Some(r.input.upload[1].txDigest)
              /\ r.value.explorerUrl = Some(r.input.upload[1].explorerUrl)

\* C15 witness: a successful claim recorded after a protection; both entries
\* carry the proof fields of their inputs.
C15_Witness ==
    /\ ledgerRet # Nothing /\ ledgerRet[1].op = "recordEarning"
    /\ Len(entries) = 2
    /\ entries[1].source = "seal_encryption" /\ entries[1].blobId = Some("blob1")
    /\ entries[1].sealPolicyId = Some("policy1")
    /\ entries[2].taskHash = Some("h1") /\ entries[2].bountyId = Some(0)
    /\ entries[2].txDigest = Some("tx1") /\ entries[2].explorerUrl = Some("scan/tx1")

\* Package contents that differ from p in one field other than the checksum.
Tampered(p) ==
    {[p EXCEPT !.generatedAt = @ + 1],
     [p EXCEPT !.agentAddress = "0xC"],
     [p EXCEPT !.entries = Append(@, MkEntry(@, 0, CHOOSE e \in RawEntries : e.direction = "income"))],
     [p EXCEPT !.profitLoss.totalIncome = @ + 1],
     [p EXCEPT !.profitLoss.incomeBySource = MapAdd(@, "other", 1)],
     [p EXCEPT !.profitLoss.expenseBySource = MapAdd(@, "other", 1)],
     [p EXCEPT !.onChainTransactions = Append(@, TxSummary(MkEntry(<<>>, 0, EarningInput(OkClaim))))],
     [p EXCEPT !.encryptedStorage = Append(@, StorageSummary(MkEntry(<<>>, 0, SpendingInput(OkProtection))))],
     [p EXCEPT !.workProofs = Append(@, ProofSummary(MkEntry(<<>>, 0, EarningInput(OkClaim))))]}

\* C16: the checksum is the digest of every field of the package but itself:
\* package contents that differ from a generated package in one other field
\* (generation time, address, an entry, a profitLoss total, a profitLoss
\* breakdown, a summary list) have a different digest.
C16_ChecksumCoversEveryField ==
    auditRet # Nothing =>
        /\ auditRet[1].checksum = Sha256(Stringify(auditRet[1]))
        /\ \A q \in Tampered(auditRet[1]) : Sha256(Stringify(q)) # auditRet[1].checksum

\* The entry satisfies every criterion present in the filter argument.
Satisfies(fo, e) ==
    fo # Nothing =>
        /\ fo[1].from # Nothing => e.timestamp >= fo[1].from[1]
        /\ fo[1].to # Nothing => e.timestamp <= fo[1].to[1]
        /\ fo[1].direction # Nothing => e.direction = fo[1].direction[1]
        /\ fo[1].source # Nothing => e.source = fo[1].source[1]

\* C18: getEntries(filter) returns exactly the stored entries that satisfy
\* every criterion present in the filter (both time bounds inclusive), in
\* insertion order, none duplicated; with no filter or no criterion, all.
C18_GetEntriesFilter ==
    (ledgerRet # Nothing /\ ledgerRet[1].op = "getEntries") =>
        LET fo == ledgerRet[1].input
            v == ledgerRet[1].value
            idx == Ascending({k \in 1..Len(entries) : Satisfies(fo, entries[k])})
        IN /\ Len(v) = Len(idx)
           /\ \A k \in 1..Len(idx) : v[k] = entries[idx[k]]
           /\ (fo = Nothing \/ fo = Some(NoFilter)) => v = entries

\* C18 witness: of an income entry and a later gas_fee expense stamped at the
\* upper bound of the window, the filter with all four criteria returns the
\* expense alone.
C18_Witness ==
    /\ ledgerRet # Nothing /\ ledgerRet[1].op = "getEntries"
    /\ ledgerRet[1].input = Some([from |-> Some(0), to |-> Some(MaxTime),
                                  direction |-> Some("expense"), source |-> Some("gas_fee")])
    /\ Len(entries) = 2
    /\ entries[1].direction = "income"
    /\ entries[2].timestamp = MaxTime
    /\ ledgerRet[1].value = <<entries[2]>>

\* The operations that read the ledger, and the write to a returned list.
ReadOps == {"getEntries", "writtenList", "printSummary", "exportToJson"}

\* C27: getEntries, generatePnL, generateAuditPackage, printSummary and
\* exportToJson leave the stored entry sequence unchanged, and the list
\* getEntries returns is a copy: pushing to it, popping from it or reversing
\* it changes neither the stored entries nor what a later call returns.
C27_ReadsLeaveEntries ==
    /\ [][(ledgerRet' # Nothing /\ ledgerRet'[1].op \in ReadOps) => entries' = entries]_vars
    /\ [][(pnlRet' # Nothing \/ auditRet' # Nothing) => entries' = entries]_vars
    /\ [][(ledgerRet' # Nothing /\ ledgerRet'[1].op = "writtenList") =>
             /\ \A fo \in Filters : getEntries(entries', fo) = getEntries(entries, fo)
             /\ exportToJson(entries') = exportToJson(entries)
             /\ generatePnL(entries', Nothing, Nothing, now') = generatePnL(entries, Nothing, Nothing, now)]_vars
    /\ [](auditRet # Nothing => auditRet[1].entries = entries)

\* C27 witness: with two entries stored and a package generated, the caller
\* reversed the unfiltered list it was handed; the stored order is as before.
C27_Witness ==
    /\ Len(entries) = 2 /\ entries[1].id = 1 /\ entries[2].id = 2
    /\ auditRet # Nothing /\ pnlRet # Nothing
    /\ ledgerRet # Nothing /\ ledgerRet[1].op = "writtenList" /\ ledgerRet[1].input = Nothing
    /\ ledgerRet[1].value = <<entries[2], entries[1]>>

\* C28: the profitMargin of a report is 0 whenever its totalIncome is 0 (also
\* with expenses recorded and a negative netProfit), and netProfit / totalIncome
\* otherwise: 9/10 for an income of 10 and an expense of 1 (in units of
\* 100000000).
C28_ProfitMargin ==
    pnlRet # Nothing =>
        LET r == pnlRet[1].report IN
        /\ r.totalIncome = 0 => r.profitMargin = <<0, 1>>
        /\ r.totalIncome # 0 =>
              /\ r.profitMargin[2] > 0
              /\ r.profitMargin[1] * r.totalIncome = r.netProfit * r.profitMargin[2]
        /\ (r.totalIncome = 10 /\ r.totalExpense = 1) => r.profitMargin = <<9, 10>>

\* C29: every stored entry has a non-negative amount, whatever is passed to
\* record() and whatever amounts the collaborators report.
C29_NonNegativeAmounts ==
    \A k \in 1..Len(entries) : entries[k].amount >= 0

Timestamps(es) == {es[k].timestamp : k \in 1..Len(es)}

\* C32: a report asked for without a window bound covers the period from the
\* earliest to the latest timestamp among the entries it sums, whatever
\* timestamps the clock gave them.
C32_PeriodDefaults ==
    (pnlRet # Nothing /\ pnlRet[1].from = Nothing /\ pnlRet[1].to = Nothing /\ entries # <<>>)
        => /\ \A t \in Timestamps(entries) : pnlRet[1].report.period.from <= t
           /\ \A t \in Timestamps(entries) : pnlRet[1].report.period.to >= t

RECURSIVE MapTotal(_)
MapTotal(m) ==
    IF DOMAIN m = {} THEN 0
    ELSE LET k == CHOOSE x \in DOMAIN m : TRUE
         IN m[k] + MapTotal([x \in DOMAIN m \ {k} |-> m[x]])

\* The positions of the entries inside the window <<from, to>> (bounds included).
InWindow(es, from, to) ==
    {k \in 1..Len(es) : /\ (from = Nothing \/ es[k].timestamp >= from[1])
                        /\ (to = Nothing \/ es[k].timestamp <= to[1])}

\* C40: in every report the values of incomeBySource sum to totalIncome and
\* those of expenseBySource to totalExpense, the categories of a breakdown are
\* those of the summed entries of that direction, each with the sum of their
\* amounts, and transactionCount is the number of entries in the window.
C40_BreakdownsAddUp ==
    pnlRet # Nothing =>
        LET r == pnlRet[1].report
            W == InWindow(entries, pnlRet[1].from, pnlRet[1].to)
            Of(dir) == {k \in W : entries[k].direction = dir}
        IN /\ MapTotal(r.incomeBySource) = r.totalIncome
           /\ MapTotal(r.expenseBySource) = r.totalExpense
           /\ DOMAIN r.incomeBySource = {entries[k].source : k \in Of("income")}
           /\ DOMAIN r.expenseBySource = {entries[k].source : k \in Of("expense")}
           /\ \A s \in DOMAIN r.incomeBySource :
                 r.incomeBySource[s] =
                     SumOf(SelectSeq(entries, LAMBDA e : e.source = s /\ e \in {entries[k] : k \in W}),
                           "income")
           /\ \A s \in DOMAIN r.expenseBySource :
                 r.expenseBySource[s] =
                     SumOf(SelectSeq(entries, LAMBDA e : e.source = s /\ e \in {entries[k] : k \in W}),
                           "expense")
           /\ r.transactionCount = Cardinality(W)

\* C40 witness: a report over a window that leaves out one of two entries of
\* the same category: the breakdown has that category with the one amount.
C40_Witness ==
    /\ pnlRet # Nothing /\ pnlRet[1].from # Nothing
    /\ Len(entries) = 2
    /\ entries[1].source = entries[2].source /\ entries[1].direction = "income"
    /\ entries[2].direction = "income"
    /\ pnlRet[1].report.transactionCount = 1
    /\ DOMAIN pnlRet[1].report.incomeBySource = {entries[2].source}
    /\ pnlRet[1].report.totalIncome = entries[2].amount

====
